---- MODULE Spec2Model ----
(***************************************************************************)
(* The three-stage build protocol of the node system (Node.build and the   *)
(* setup / analyze / generate functions of Node, BypassNode, VaryingNode   *)
(* and PropertyNode), run against a builder that keeps the per-node        *)
(* properties, the per-node data, the hash registry and the chain.         *)
(*                                                                         *)
(* A build is a synchronous call tree.  It is modelled with an explicit    *)
(* call stack: every frame is one activation of Node.build, and an action  *)
(* runs the code of the top frame up to its next nested build call (or to  *)
(* its return).                                                            *)
(***************************************************************************)
EXTENDS Integers, Sequences, FiniteSets, TLC

\* ------------------------------------------------------------------ bounds
MaxBuilds == 2
MaxDepth == 14
MaxVersion == 2
MaxOperands == 4

Nodes == 1..3
Null == 0
Undef == -1

\* ------------------------------------------------------------- vocabulary
Stages == {"setup", "analyze", "generate"}
ShaderStages == {"vertex", "fragment"}
\* "Node" is the base class; "SetupNode" is a class that overrides setup to
\* return an output node and inherits analyze and generate (as SceneNode does).
Kinds == {"Node", "SetupNode", "BypassNode", "VaryingNode", "PropertyNode"}
Names == {"", "vUv"}

RecursionSnippet == "/* Recursion detected. */"

\* Values a build call returns: a Node, null, undefined, or a string.
RNode(n) == [k |-> "node", n |-> n, s |-> "", c |-> ""]
RNull == [k |-> "null", n |-> 0, s |-> "", c |-> ""]
RUndef == [k |-> "undefined", n |-> 0, s |-> "", c |-> ""]
RStr(s) == [k |-> "string", n |-> 0, s |-> s, c |-> ""]

\* Nothing dispatched and nothing logged: no idle call was the last step.
NoEvent == [call |-> "none", node |-> Null, dispatched |-> <<>>, warnings |-> 0, threw |-> FALSE]

VARIABLES
    kind,       \* the class of every node
    aNode,      \* first node-valued field (child / setup output / outputNode / node)
    bNode,      \* second node-valued field (BypassNode.callNode)
    name,       \* VaryingNode.name / PropertyNode.name ("" when not set)
    varying,    \* PropertyNode.varying
    builder,    \* the builder's state
    other,      \* the state of the builder used before this one
    stack,      \* the activations of Node.build, innermost last
    ret,        \* the value returned by the build call that returned last
    hist,       \* what has been invoked so far (observation only)
    builds,     \* number of top-level build calls made
    err,        \* an uncaught RangeError (call stack exhausted) has been thrown
    created,    \* the nodes constructed so far
    nodeId,     \* the module counter _nodeId
    id,         \* Node.id
    version,    \* Node.version
    cacheKey,   \* Node._cacheKey
    cacheKeyVersion,    \* Node._cacheKeyVersion
    updateType, \* Node.updateType
    last,       \* the getCacheKey call made in the last step (observation only)
    change,     \* the last change of a leaf's value (observation only)
    expr,       \* the operator or math node made or typed in the last step
    event,      \* what the last call on an idle node dispatched and logged
    screen      \* the builder and the call stack of a compile of the screen nodes

graph == <<kind, aNode, bNode, name, varying>>
compile == <<builder, other, stack, ret, hist, builds, err>>
fields == <<created, nodeId, id, version, cacheKey, cacheKeyVersion, updateType,
            last, change>>
vars == <<kind, aNode, bNode, name, varying, builder, other, stack, ret, hist, builds, err,
          created, nodeId, id, version, cacheKey, cacheKeyVersion, updateType,
          last, change, expr, event, screen>>


Top == stack[Len(stack)]

\* ------------------------------------------------------ the node classes
HashUuid(n) == [name |-> "", uuid |-> n]

HashName(n) == [name |-> name[n], uuid |-> 0]

\* Node.getHash, VaryingNode.getHash, PropertyNode.getHash: the name when one
\* is set, the node's own uuid otherwise.
Hash(n) ==
    IF kind[n] \in {"VaryingNode", "PropertyNode"} /\ name[n] # ""
    THEN [name |-> name[n], uuid |-> 0]
    ELSE [name |-> "", uuid |-> n]

ChildrenLastFirst(n) ==
    CASE kind[n] = "Node" -> IF aNode[n] > 0 THEN <<aNode[n]>> ELSE <<>>
      [] kind[n] = "BypassNode" -> <<bNode[n], aNode[n]>>
      [] kind[n] = "VaryingNode" -> <<aNode[n]>>
      [] OTHER -> <<>>

\* getNodeChildren: the node-valued fields of the object, in field order.
Children(n) ==
    CASE kind[n] = "Node" -> IF aNode[n] > 0 THEN <<aNode[n]>> ELSE <<>>
      [] kind[n] = "BypassNode" -> <<aNode[n], bNode[n]>>
      [] kind[n] = "VaryingNode" -> <<aNode[n]>>
      [] OTHER -> <<>>

IsGenerateOnceNever(n) == FALSE

\* this.generate.length === 1
IsGenerateOnce(n) == kind[n] \in {"BypassNode", "VaryingNode", "PropertyNode"}

\* The node whose type getNodeType asks for next, Null when it answers itself.
TypeNext(B, n) ==
    CASE kind[n] = "BypassNode" -> aNode[n]
      [] kind[n] = "VaryingNode" -> aNode[n]
      [] OTHER -> IF B.props[n].outputNode > 0 THEN B.props[n].outputNode ELSE Null

RECURSIVE TypeWalk(_, _, _)
TypeWalk(B, n, k) ==
    IF TypeNext(B, n) = Null THEN FALSE
    ELSE IF k = 0 THEN TRUE
    ELSE TypeWalk(B, TypeNext(B, n), k - 1)

\* getNodeType never returns: the chain it follows comes back to a node.
TypeOverflow(B, n) == TypeWalk(B, n, Cardinality(Nodes))

\* ------------------------------------------------------------ the builder
NoProps == [initialized |-> FALSE, children |-> <<>>, outputNode |-> Undef,
            varying |-> FALSE, node |-> Undef, property |-> FALSE]
NoData == [buildStages |-> {}, usageCount |-> 0, generated |-> FALSE, snippet |-> RUndef]
NoVarying == [allocated |-> FALSE, needsInterpolation |-> FALSE]

NewBuilder ==
    [buildStage |-> "", shaderStage |-> "",
     hashNodes |-> [h \in {Hash(n) : n \in Nodes} |-> Null],
     nodes |-> {}, chain |-> <<>>,
     props |-> [n \in Nodes |-> NoProps],
     data |-> [n \in Nodes |-> NoData],
     varyings |-> [n \in Nodes |-> NoVarying],
     nodeVars |-> [n \in Nodes |-> FALSE],
     sequentialNodes |-> [n \in Nodes |-> 0]]

GetNodeFromHash(B, h) == B.hashNodes[h]

AddNode(B, n) ==
    IF n \in B.nodes THEN B
    ELSE [B EXCEPT !.nodes = @ \cup {n}, !.hashNodes[Hash(n)] = n]

AddChain(B, n) == [B EXCEPT !.chain = Append(@, n)]

RemoveChain(B, n) == [B EXCEPT !.chain = SubSeq(@, 1, Len(@) - 1)]

IncreaseUsage(B, n) == [B EXCEPT !.data[n].usageCount = @ + 1]

GetVaryingFromNode(B, n) == [B EXCEPT !.varyings[n].allocated = TRUE]

GetVarFromNodeVarying(B, n) == [B EXCEPT !.varyings[n].allocated = TRUE]

GetVarFromNode(B, n) == [B EXCEPT !.nodeVars[n] = TRUE]

Format(r, type, out) == IF out = "" \/ out = type THEN r ELSE [r EXCEPT !.c = out]

PropertyName(n) == <<"nodeVar1", "nodeVar2", "nodeVar3">>[n]
VaryingName(n) == <<"nodeVarying1", "nodeVarying2", "nodeVarying3">>[n]

\* ------------------------------------------------------------- the stack
Frame(n, out) ==
    [node |-> n, pc |-> "enter", output |-> out, prev |-> "", todo |-> <<>>,
     first |-> FALSE, entry |-> ""]

Call(S, n, out) == Append(S, Frame(n, out))
SetTop(S, f) == [S EXCEPT ![Len(S)] = f]
Pop(S) == SubSeq(S, 1, Len(S) - 1)

Out(b, h, s, r) == [b |-> b, h |-> h, s |-> s, r |-> r, e |-> FALSE]
Throw(b, h, s, r) == [b |-> b, h |-> h, s |-> s, r |-> r, e |-> TRUE]

Val(x) == IF x > 0 THEN RNode(x) ELSE IF x = Null THEN RNull ELSE RUndef

\* What held when a node's generate function was first invoked.
NotYet == [setups |-> -1, analyzes |-> -1, usage |-> -1, out |-> Undef, shader |-> ""]
GenTime(B, H, n) ==
    [setups |-> H.setupCalls[n], analyzes |-> H.analyzeCalls[n],
     usage |-> B.data[n].usageCount, out |-> B.props[n].outputNode,
     shader |-> B.shaderStage]

NoHist ==
    [setupCalls |-> [n \in Nodes |-> 0],
     analyzeCalls |-> [n \in Nodes |-> 0],
     generateCalls |-> [n \in Nodes |-> 0],
     setupDone |-> {}, analyzeDone |-> {}, freshGen |-> {},
     analyzeFanout |-> [n \in Nodes |-> 0],
     analyzeChildBuilds |-> [n \in Nodes |-> 0],
     setupVaryingCalls |-> [n \in Nodes |-> 0],
     getVaryingCalls |-> [n \in Nodes |-> 0],
     fragmentTouch |-> [n \in Nodes |-> FALSE],
     lastTouch |-> [n \in Nodes |-> ""],
     propertyVarCalls |-> [n \in Nodes |-> 0],
     propertyVaryingCalls |-> [n \in Nodes |-> 0],
     flowBound |-> [n \in Nodes |-> 0],
     genAt |-> [n \in Nodes |-> NotYet]]

\* ------------------------------------------------------------ Node.build
ParentBuildStageNone(stage) == ""

ParentBuildStageSkipsAnalyze(stage) == IF stage = "setup" THEN "" ELSE "setup"

ParentBuildStage(stage) ==
    CASE stage = "analyze" -> "setup"
      [] stage = "generate" -> "analyze"
      [] OTHER -> ""

GetSharedSelf(B, n) == n

GetSharedOfClass(B, n) ==
    IF GetNodeFromHash(B, Hash(n)) # Null /\ kind[GetNodeFromHash(B, Hash(n))] = kind[n]
    THEN GetNodeFromHash(B, Hash(n)) ELSE n

GetShared(B, n) ==
    IF GetNodeFromHash(B, Hash(n)) # Null THEN GetNodeFromHash(B, Hash(n)) ELSE n

\* The Node-valued entries of the property record, in insertion order.
NodeValues(B, n) ==
    B.props[n].children
      \o (IF B.props[n].node > 0 THEN <<B.props[n].node>> ELSE <<>>)
      \o (IF B.props[n].outputNode > 0 THEN <<B.props[n].outputNode>> ELSE <<>>)

\* builder.addSequentialNode( node ), counted per node.
AddSequentialNode(B, n) == [B EXCEPT !.sequentialNodes[n] = @ + 1]

FinishOnChain(B, H, S, res) ==
    LET f == S[Len(S)]
    IN Out(AddSequentialNode(B, f.node), H, Pop(S), res)

\* The tail of build: removeChain, addSequentialNode, return result.
Finish(B, H, S, res) ==
    LET f == S[Len(S)]
        H1 == IF f.first /\ B.buildStage = "setup"
              THEN [H EXCEPT !.setupDone = @ \cup {f.node}]
              ELSE IF f.first /\ B.buildStage = "analyze"
              THEN [H EXCEPT !.analyzeDone = @ \cup {f.node}]
              ELSE H
    IN Out(AddSequentialNode(RemoveChain(B, f.node), f.node), H1, Pop(S), res)

\* One turn of the loop over the property record's nodes (setup and analyze).
LoopStep(B, H, S, r) ==
    LET f == S[Len(S)]
    IN IF f.todo = <<>>
       THEN Finish(B, H, S, IF f.pc = "setupLoop" THEN Val(B.props[f.node].outputNode)
                                                   ELSE RNull)
       ELSE Out(B,
                IF f.pc = "analyzeLoop"
                THEN [H EXCEPT !.analyzeChildBuilds[f.node] = @ + 1] ELSE H,
                Call(SetTop(S, [f EXCEPT !.todo = Tail(@)]), Head(f.todo), ""), r)

\* VaryingNode.setupVarying
VaryingStoredNever(B, n) == FALSE

\* properties.varying !== undefined
VaryingStored(B, n) == B.props[n].varying

NeedsInterpolationLast(B, n) == B.shaderStage = "fragment"

\* varying.needsInterpolation || ( builder.shaderStage === 'fragment' )
NeedsInterpolation(B, n) ==
    B.varyings[n].needsInterpolation \/ B.shaderStage = "fragment"

SetupVarying(B, H0, n) ==
    LET fresh == ~VaryingStored(B, n)
        H == [H0 EXCEPT !.setupVaryingCalls[n] = @ + 1,
                        !.fragmentTouch[n] = @ \/ B.shaderStage = "fragment",
                        !.lastTouch[n] = B.shaderStage]
        B1 == IF fresh
              THEN [GetVaryingFromNode(B, n) EXCEPT !.props[n].varying = TRUE,
                                                    !.props[n].node = aNode[n]]
              ELSE B
        H1 == IF fresh THEN [H EXCEPT !.getVaryingCalls[n] = @ + 1] ELSE H
        B2 == [B1 EXCEPT !.varyings[n].needsInterpolation = NeedsInterpolation(B1, n)]
    IN [b |-> B2, h |-> H1, e |-> fresh /\ TypeOverflow(B, n)]

\* builder.flowNodeFromShaderStage( VERTEX, node, ... ) called from the top
\* frame, which waits at pc for the flowed build to return.
FlowNodeFromShaderStage(B, H, S, r, pc, node) ==
    LET f == S[Len(S)]
    IN Out([B EXCEPT !.shaderStage = "vertex"], H,
           Call(SetTop(S, [f EXCEPT !.pc = pc, !.prev = B.shaderStage]), node, ""), r)

\* Node.setup (the default) and the overrides that return an output node.
Setup(B, n) ==
    IF kind[n] = "SetupNode"
    THEN [b |-> B, out |-> aNode[n]]
    ELSE [b |-> [B EXCEPT !.props[n].children = Children(n)],
          out |-> IF B.props[n].outputNode > 0 THEN B.props[n].outputNode ELSE Null]

\* build, setup stage, after this.setup( builder ) has returned `out`.
AfterSetup(B, H, S, r, out) ==
    LET f == S[Len(S)]
        n == f.node
        B1 == [B EXCEPT !.props[n].outputNode =
                  IF out > 0 THEN out ELSE IF @ > 0 THEN @ ELSE Null]
    IN LoopStep(B1, H, SetTop(S, [f EXCEPT !.pc = "setupLoop", !.todo = NodeValues(B1, n)]), r)

InitializedNever(B, n) == FALSE

InitializedAnywhere(B, n) == B.props[n].initialized \/ other.props[n].initialized

\* properties.initialized === true
Initialized(B, n) == B.props[n].initialized

BuildSetup(B, H, S, r) ==
    LET f == S[Len(S)]
        n == f.node
        B1 == [B EXCEPT !.props[n].initialized = TRUE]
        H1 == [H EXCEPT !.setupCalls[n] = @ + 1]
        S1 == SetTop(S, [f EXCEPT !.first = TRUE])
        sv == SetupVarying(B1, H1, n)
        su == Setup(B1, n)
    IN IF Initialized(B, n)
       THEN Finish(B, H, S, Val(B.props[n].outputNode))
       ELSE IF kind[n] = "VaryingNode"
       THEN IF sv.e THEN Throw(sv.b, sv.h, S1, r)
            ELSE FlowNodeFromShaderStage(sv.b, sv.h, S1, r, "setupFlow", aNode[n])
       ELSE AfterSetup(su.b, H1, S1, r, su.out)

FirstUsageOrLater(B, n) == B.data[n].usageCount >= 1

\* usageCount === 1
FirstUsage(B, n) == B.data[n].usageCount = 1

\* Node.analyze and VaryingNode.analyze
BuildAnalyze(B, H, S, r) ==
    LET f == S[Len(S)]
        n == f.node
        H1 == [H EXCEPT !.analyzeCalls[n] = @ + 1]
        S1 == SetTop(S, [f EXCEPT !.first = (H.analyzeCalls[n] = 0)])
        sv == SetupVarying(B, H1, n)
        B1 == IncreaseUsage(B, n)
    IN IF kind[n] = "VaryingNode"
       THEN IF sv.e THEN Throw(sv.b, sv.h, S1, r)
            ELSE FlowNodeFromShaderStage(sv.b, sv.h, S1, r, "analyzeFlow", aNode[n])
       ELSE IF FirstUsage(B1, n)
       THEN LoopStep(B1, [H1 EXCEPT !.analyzeFanout[n] = @ + 1],
                     SetTop(S1, [S1[Len(S1)] EXCEPT !.pc = "analyzeLoop",
                                                    !.todo = NodeValues(B1, n)]), r)
       ELSE Finish(B1, H1, S1, RNull)

PropertyBoundAlways(B, n) == TRUE

\* properties[ propertyKey ] !== undefined
PropertyBound(B, n) == B.props[n].property

\* The generate functions of the single-output classes.
GenerateOnce(B, H, S, r) ==
    LET f == S[Len(S)]
        n == f.node
        sv == SetupVarying(B, H, n)
        pn == RStr(PropertyName(n))
        vn == RStr(VaryingName(n))
    IN CASE kind[n] = "PropertyNode" ->
              IF varying[n]
              THEN Finish([GetVaryingFromNode(B, n) EXCEPT
                              !.varyings[n].needsInterpolation = TRUE,
                              !.data[n].snippet = vn],
                          [H EXCEPT !.propertyVaryingCalls[n] = @ + 1], S,
                          Format(vn, "float", f.output))
              ELSE Finish([GetVarFromNode(B, n) EXCEPT !.data[n].snippet = pn],
                          [H EXCEPT !.propertyVarCalls[n] = @ + 1], S,
                          Format(pn, "float", f.output))
         [] kind[n] = "BypassNode" ->
              Out(B, H, Call(SetTop(S, [f EXCEPT !.pc = "genCall"]), bNode[n], "void"), r)
         [] OTHER ->
              IF sv.e THEN Throw(sv.b, sv.h, S, r)
              ELSE IF ~PropertyBound(sv.b, n)
              THEN FlowNodeFromShaderStage(sv.b, [sv.h EXCEPT !.flowBound[n] = @ + 1],
                                           S, r, "genFlow", sv.b.props[n].node)
              ELSE Finish([sv.b EXCEPT !.data[n].snippet = vn], sv.h, S,
                          Format(vn, "float", f.output))

SnippetForgotten(B, n) == RUndef

\* nodeData.snippet
Snippet(B, n) == B.data[n].snippet

GeneratedNever(B, n) == FALSE

\* nodeData.generated !== undefined
Generated(B, n) == B.data[n].generated

RecursionStored(B, n) == [B EXCEPT !.data[n].snippet = RStr(RecursionSnippet)]

\* The builder after the 'Recursion detected' branch: only a warning is logged.
Recursion(B, n) == B

BuildGenerate(B, H, S, r) ==
    LET f == S[Len(S)]
        n == f.node
        H1 == [H EXCEPT !.generateCalls[n] = @ + 1,
                        !.genAt[n] = IF H.generateCalls[n] = 0 THEN GenTime(B, H, n) ELSE @]
    IN IF IsGenerateOnce(n)
       THEN IF TypeOverflow(B, n) THEN Throw(B, H, S, r)
            ELSE IF Snippet(B, n) # RUndef
            THEN Finish(B, H, S, Format(Snippet(B, n), "float", f.output))
            ELSE IF ~Generated(B, n)
            THEN GenerateOnce([B EXCEPT !.data[n].generated = TRUE], H1, S, r)
            ELSE Finish(Recursion(B, n), H, S,
                       Format(RStr(RecursionSnippet), "float", f.output))
       ELSE IF B.props[n].outputNode > 0
       THEN Out(B, H1, Call(SetTop(S, [f EXCEPT !.pc = "genOut"]),
                            B.props[n].outputNode, f.output), r)
       ELSE Finish(B, H1, S, RStr(""))

\* build from builder.addNode( this ) on: the stage work of the top frame.
Dispatch(B0, H, S, r) ==
    LET n == S[Len(S)].node
        B == AddChain(AddNode(B0, n), n)
    IN CASE B.buildStage = "setup" -> BuildSetup(B, H, S, r)
         [] B.buildStage = "analyze" -> BuildAnalyze(B, H, S, r)
         [] OTHER -> BuildGenerate(B, H, S, r)

RestoredBuildStageParent(f) == ParentBuildStage(f.prev)

\* builder.setBuildStage( previousBuildStage )
RestoredBuildStage(f) == f.prev

MarkBuildStageNever(stages, stage) == stages

\* nodeData.buildStages[ builder.buildStage ] = true
MarkBuildStage(stages, stage) == stages \cup {stage}

\* build from its first line to the stage work.
BuildEnter(B, H, S0, r) ==
    LET f == [S0[Len(S0)] EXCEPT !.entry = B.buildStage]
        S == SetTop(S0, f)
        n == f.node
        refNode == GetShared(B, n)
        B1 == [B EXCEPT !.data[n].buildStages = MarkBuildStage(@, B.buildStage)]
        H1 == IF B.data[n].buildStages = {} /\ B.buildStage = "generate"
              THEN [H EXCEPT !.freshGen = @ \cup {n}] ELSE H
        parentBuildStage == ParentBuildStage(B.buildStage)
    IN IF refNode # n
       THEN Out(B, H, Call(SetTop(S, [f EXCEPT !.pc = "delegated"]), refNode, f.output), r)
       ELSE IF parentBuildStage # "" /\ parentBuildStage \notin B1.data[n].buildStages
       THEN Out([B1 EXCEPT !.buildStage = parentBuildStage], H1,
                Call(SetTop(S, [f EXCEPT !.pc = "backfill", !.prev = B.buildStage]), n, ""), r)
       ELSE Dispatch(B1, H1, S, r)

\* ---------------------------------------------------------------- actions
\* The outcome of a step becomes the next state; a call that would exceed the
\* call stack throws a RangeError instead.
Commit(o) ==
    /\ builder' = o.b
    /\ hist' = o.h
    /\ ret' = o.r
    /\ IF o.e \/ Len(o.s) > MaxDepth
       THEN err' = TRUE /\ stack' = stack
       ELSE err' = FALSE /\ stack' = o.s
    /\ UNCHANGED <<graph, other, builds, fields, expr, event, screen>>

Running(pc) == ~err /\ stack # <<>> /\ Top.pc = pc

\* A caller of the node system builds node n with the builder in the given
\* build stage and shader stage.
TopBuild(n, stage, shaderStage) ==
    /\ ~err /\ stack = <<>> /\ builds < MaxBuilds
    /\ builder' = [builder EXCEPT !.buildStage = stage, !.shaderStage = shaderStage]
    /\ stack' = <<Frame(n, "")>>
    /\ builds' = builds + 1
    /\ event' = NoEvent
    /\ UNCHANGED <<graph, other, ret, hist, err, fields, expr, screen>>

Enter == Running("enter") /\ Commit(BuildEnter(builder, hist, stack, ret))

Delegated == Running("delegated") /\ Commit(Out(builder, hist, Pop(stack), ret))

Backfilled ==
    /\ Running("backfill")
    /\ Commit(Dispatch([builder EXCEPT !.buildStage = RestoredBuildStage(Top)],
                        hist, stack, ret))

SetupFlowed ==
    /\ Running("setupFlow")
    /\ Commit(AfterSetup([builder EXCEPT !.shaderStage = Top.prev], hist, stack, ret, Null))

SetupLoop == Running("setupLoop") /\ Commit(LoopStep(builder, hist, stack, ret))

AnalyzeFlowed ==
    /\ Running("analyzeFlow")
    /\ Commit(Finish([builder EXCEPT !.shaderStage = Top.prev], hist, stack, RNull))

AnalyzeLoop == Running("analyzeLoop") /\ Commit(LoopStep(builder, hist, stack, ret))

\* BypassNode.generate after callNode.build( builder, 'void' ) returned.
BypassCalled ==
    /\ Running("genCall")
    /\ Commit(Out(builder, hist,
                  Call(SetTop(stack, [Top EXCEPT !.pc = "genOutOnce"]), aNode[Top.node], ""),
                  ret))

\* BypassNode.generate after outputNode.build( builder ) returned.
BypassReturned ==
    /\ Running("genOutOnce")
    /\ Commit(Finish([builder EXCEPT !.data[Top.node].snippet = ret], hist, stack,
                     Format(ret, "float", Top.output)))

\* Node.generate after outputNode.build( builder, output ) returned.
GenerateReturned == Running("genOut") /\ Commit(Finish(builder, hist, stack, ret))

\* VaryingNode.generate after the source was flowed into the vertex stage.
VaryingFlowed ==
    /\ Running("genFlow")
    /\ LET n == Top.node
           vn == RStr(VaryingName(n))
       IN Commit(Finish([builder EXCEPT !.shaderStage = Top.prev,
                                        !.props[n].property = TRUE,
                                        !.data[n].snippet = vn],
                        hist, stack, Format(vn, "float", Top.output)))

\* ------------------------------------------------ operator and math nodes
NoExpr == [f |-> "none"]

\* A type is a component type and a width (the width of a vector, or the
\* dimension of a matrix): float is Type( "float", 1 ), bvec3 is
\* Type( "bool", 3 ), mat3 is Mat( 3 ).  NoType is null: the type of an
\* operand that is not given, and no requested output.
Type(c, n) == [c |-> c, n |-> n, mat |-> FALSE]
Mat(n) == [c |-> "float", n |-> n, mat |-> TRUE]
Void == [c |-> "void", n |-> 0, mat |-> FALSE]
NoType == [c |-> "null", n |-> 0, mat |-> FALSE]
Float == Type("float", 1)
Bool == Type("bool", 1)

Components == {"bool", "int", "uint", "float"}
Types == {Type(c, n) : c \in Components, n \in 1..4} \cup {Mat(n) : n \in 2..4} \cup {Void}
Outputs == {NoType, Void, Float, Type("float", 2), Type("float", 4)}

\* The builder's type helpers.
GetTypeLength(t) == IF t.mat THEN t.n * t.n ELSE t.n
IsVector(t) == ~t.mat /\ t.n > 1
IsMatrix(t) == t.mat
GetVectorFromMatrix(t) == Type("float", t.n)
GetIntegerType(t) == IF t.c \in {"int", "uint"} THEN t ELSE [t EXCEPT !.c = "int"]

\* `bvec${ typeLength }`
BVec(typeLength) == Type("bool", typeLength)

Arithmetic == {"+", "-", "*", "/"}
Relational == {"<", ">", "<=", ">="}
Equality == {"==", "!="}
Logical == {"!", "&&", "||", "^^"}
Bitwise == {"~", "&", "|", "^", "<<", ">>"}
Unary == {"!", "~"}
Operators == Arithmetic \cup {"%"} \cup Relational \cup Equality \cup Logical \cup Bitwise

FirstVoid(typeA, typeB) == typeA = Void

\* typeA === 'void' || typeB === 'void'
EitherVoid(typeA, typeB) == typeA = Void \/ typeB = Void

LongerOrEqualType(typeA, typeB) == GetTypeLength(typeB) >= GetTypeLength(typeA)

\* builder.getTypeLength( typeB ) > builder.getTypeLength( typeA )
LongerType(typeA, typeB) == GetTypeLength(typeB) > GetTypeLength(typeA)

Max(x, y) == IF x >= y THEN x ELSE y

\* OperatorNode.getNodeType( builder, output ), typeA and typeB being the
\* types of aNode and bNode.
GetNodeType(op, typeA, typeB, output) ==
    IF EitherVoid(typeA, typeB) THEN Void
    ELSE IF op = "%" THEN typeA
    ELSE IF op \in {"~", "&", "|", "^", ">>", "<<"} THEN GetIntegerType(typeA)
    ELSE IF op \in {"!", "==", "&&", "||", "^^"} THEN Bool
    ELSE IF op \in {"<", ">", "<=", ">="}
    THEN LET typeLength == IF output # NoType THEN GetTypeLength(output)
                           ELSE Max(GetTypeLength(typeA), GetTypeLength(typeB))
         IN IF typeLength > 1 THEN BVec(typeLength) ELSE Bool
    ELSE IF typeA = Float /\ IsMatrix(typeB) THEN typeB
    ELSE IF IsMatrix(typeA) /\ IsVector(typeB) THEN GetVectorFromMatrix(typeA)
    ELSE IF IsVector(typeA) /\ IsMatrix(typeB) THEN GetVectorFromMatrix(typeB)
    ELSE IF LongerType(typeA, typeB) THEN typeB
    ELSE typeA

\* node.getNodeType( builder, output ) on an OperatorNode whose operands have
\* the types a and b; a unary operator has no second operand.
AskNodeType(op, a, b, output) ==
    /\ op \in Unary <=> b = NoType
    /\ expr' = [f |-> "getNodeType", op |-> op, a |-> a, b |-> b, output |-> output,
                type |-> GetNodeType(op, a, b, output)]
    /\ UNCHANGED <<graph, compile, fields, event, screen>>

\* Expression nodes are written as terms: Operand( i ) is the i-th node handed
\* to a constructor, Undefined an argument that was not given.
Operand(i) == [k |-> "operand", i |-> i]
Undefined == [k |-> "undefined"]
NullNode == [k |-> "null"]
OpNode(op, a, b) == [k |-> "OperatorNode", op |-> op, aNode |-> a, bNode |-> b]
MathTerm(method, a, b, c) == [k |-> "MathNode", method |-> method, aNode |-> a, bNode |-> b, cNode |-> c]

\* The value of a parameter: undefined when the caller gave fewer arguments.
Arg(args, i) == IF i <= Len(args) THEN args[i] ELSE Undefined

\* A parameter declared with `= null`.
ArgOrNull(args, i) == IF i <= Len(args) THEN args[i] ELSE NullNode

OrLast(params, i) == i <= Len(params)

\* i < params.length - 1, with i counted from 1
BeforeLast(params, i) == i < Len(params)

\* for ( let i = 0; i < params.length - 1; i ++ ) finalOp = new OperatorNode( op, finalOp, params[ i ] )
\* (params is indexed from 1 here).
RECURSIVE OperatorLoop(_, _, _, _)
OperatorLoop(op, finalOp, params, i) ==
    IF BeforeLast(params, i)
    THEN OperatorLoop(op, OpNode(op, finalOp, params[i]), params, i + 1)
    ELSE finalOp

\* new OperatorNode( op, aNode, bNode, ...params ), nodes being the arguments
\* after op.
OperatorNode(op, nodes) ==
    LET params == SubSeq(nodes, 3, Len(nodes))
    IN IF Len(params) > 0
       THEN OpNode(op, OperatorLoop(op, OpNode(op, nodes[1], nodes[2]), params, 1),
                   params[Len(params)])
       ELSE OpNode(op, Arg(nodes, 1), Arg(nodes, 2))

\* The first value of i in the loop of the MathNode constructor, as an index
\* into arguments counted from 1: arguments[ 2 ].
MathLoopStart == 3

\* for ( let i = 2; i < arguments.length - 1; i ++ ) finalOp = new MathNode( method, finalOp, arguments[ i ] )
\* (arguments is indexed from 1 here, so arguments[ 1 ] is the method).
RECURSIVE MathLoop(_, _, _, _)
MathLoop(method, finalOp, arguments, i) ==
    IF i < Len(arguments)
    THEN MathLoop(method, MathTerm(method, finalOp, arguments[i], NullNode), arguments, i + 1)
    ELSE finalOp

Methods == {"min", "max", "mix", "sin"}

\* new MathNode( method, aNode, bNode = null, cNode = null ), arguments being
\* the method followed by the nodes given.
MathNode(arguments) ==
    LET method == arguments[1]
        nodes == Tail(arguments)
    IN IF method \in {"max", "min"} /\ Len(arguments) > 3
       THEN MathTerm(method,
                     MathLoop(method, MathTerm(method, nodes[1], nodes[2], NullNode),
                              arguments, MathLoopStart),
                     arguments[Len(arguments)], NullNode)
       ELSE MathTerm(method, Arg(nodes, 1), ArgOrNull(nodes, 2), ArgOrNull(nodes, 3))

Operands(n) == [i \in 1..n |-> Operand(i)]

\* new OperatorNode( op, x1, ..., xn )
NewOperatorNode(op, n) ==
    /\ (op \in Unary) <=> (n = 1)
    /\ expr' = [f |-> "OperatorNode", op |-> op, n |-> n, node |-> OperatorNode(op, Operands(n))]
    /\ UNCHANGED <<graph, compile, fields, event, screen>>

\* new MathNode( method, x1, ..., xn )
NewMathNode(method, n) ==
    /\ method = "sin" => n = 1
    /\ method = "mix" => n = 3
    /\ method \in {"min", "max"} => n >= 2
    /\ expr' = [f |-> "MathNode", method |-> method, n |-> n,
                node |-> MathNode(<<method>> \o Operands(n))]
    /\ UNCHANGED <<graph, compile, fields, event, screen>>

\* The methods generated by the last branch of MathNode.generate that are
\* drawn here, and the number of inputs each one takes.
GeneratedMethods == {"dFdx", "dFdy", "fwidth", "sin", "pow", "clamp"}
Inputs(method) == IF method = "pow" THEN 2 ELSE IF method = "clamp" THEN 3 ELSE 1

\* '/*' + method + '*/'
Commented(method) == <<"/*", method, "*/">>

\* builder.shaderStage !== 'fragment' && ( method === MathNode.DFDX || method === MathNode.DFDY )
NotSupported(method, shaderStage) == shaderStage # "fragment" /\ method \in {"dFdx", "dFdy"}

\* The snippets of the inputs built: a always, b and c when not null.
BuiltParams(n) == SubSeq(<<"a", "b", "c">>, 1, n)

\* `${ builder.getMethod( method, type ) }( ${ params.join( ', ' ) } )`
CallSnippet(method, params) == <<method, "(", params, ")">>

\* MathNode.generate( builder, output ) of a node without an outputNode whose
\* method goes through the last branch, the builder being in shaderStage.
GenerateMath(method, shaderStage) ==
    LET warned == NotSupported(method, shaderStage)
        emitted == IF warned THEN Commented(method) ELSE <<method>>
        params == BuiltParams(Inputs(method))
    IN /\ expr' = [f |-> "generate", method |-> method, shaderStage |-> shaderStage,
                   warned |-> warned, emitted |-> emitted, params |-> params,
                   snippet |-> CallSnippet(emitted, params)]
       /\ UNCHANGED <<graph, compile, fields, event, screen>>

\* ------------------------------------------------------- the screen nodes
\* The nodes of ScreenNode.js and the nodes their setup functions make:
\* screenCoordinate, screenSize and viewport are the module's ScreenNode
\* objects of these scopes; "vec2" and "div" are the ConvertNode and the
\* OperatorNode of vec2( screenCoordinate.div( screenSize ) ); the uniforms
\* are the UniformNodes made over screenSizeVec and viewportVec.
ScreenScopes == {"coordinate", "size", "viewport"}
ScreenNodes == ScreenScopes \cup {"vec2", "div", "sizeUniform", "viewportUniform"}

\* Results of a build call on a screen node; a snippet is a list of tokens.
SNode(n) == [k |-> "node", n |-> n, s |-> <<>>]
SNull == [k |-> "null", n |-> "", s |-> <<>>]
SUndef == [k |-> "undefined", n |-> "", s |-> <<>>]
SStr(s) == [k |-> "string", n |-> "", s |-> s]

IsNode(v) == v.k = "node"

\* result || ''
OrEmpty(v) == IF v.k = "string" /\ v.s # <<>> THEN v ELSE SStr(<<>>)

\* getNodeChildren of the nodes that setup makes: the operands of the
\* division are the two module objects; a ScreenNode has no node field.
ScreenChildren(n) ==
    CASE n = "vec2" -> <<"div">>
      [] n = "div" -> <<"coordinate", "size">>
      [] OTHER -> <<>>

ScreenSetupWithoutSize(n) ==
    CASE n = "size" -> SNode("sizeUniform")
      [] n = "viewport" -> SNode("viewportUniform")
      [] OTHER -> SNull

\* ScreenNode.setup: the output node by scope.
ScreenSetup(n) ==
    CASE n = "size" -> SNode("sizeUniform")
      [] n = "viewport" -> SNode("viewportUniform")
      [] OTHER -> SNode("vec2")

\* this.generate.length === 1: ScreenNode.generate( builder ); the generate
\* functions of the other classes take the output type too.
ScreenGenerateOnce(n) == n \in ScreenScopes

NoScreenProps == [initialized |-> FALSE, outputNode |-> SUndef, children |-> <<>>]
NoScreenData == [buildStages |-> {}, usageCount |-> 0, generated |-> FALSE, snippet |-> SUndef]

\* A builder in which nothing was built, and no call in progress.
NewScreen(flipY) ==
    [flipY |-> flipY, buildStage |-> "",
     props |-> [n \in ScreenNodes |-> NoScreenProps],
     data |-> [n \in ScreenNodes |-> NoScreenData],
     stack |-> <<>>, ret |-> SUndef, error |-> "none", builds |-> 0,
     read |-> SUndef, reads |-> 0]

ScreenFrame(n) == [node |-> n, pc |-> "enter", prev |-> "", todo |-> <<>>]

\* A nested build call; the call stack is exhausted beyond MaxDepth frames.
ScreenCall(B, f, n) ==
    IF Len(B.stack) >= MaxDepth
    THEN [B EXCEPT !.error = "RangeError"]
    ELSE [B EXCEPT !.stack = Append([B.stack EXCEPT ![Len(B.stack)] = f], ScreenFrame(n))]

\* return result
ScreenReturn(B, res) ==
    [B EXCEPT !.stack = SubSeq(B.stack, 1, Len(B.stack) - 1), !.ret = res]

\* Object.values( properties ) that are nodes: the output node and the
\* children stored by Node.setup.
ScreenValues(B, n) ==
    (IF IsNode(B.props[n].outputNode) THEN <<B.props[n].outputNode.n>> ELSE <<>>)
        \o B.props[n].children

\* The loops of the setup branch and of Node.analyze: build the next child,
\* or leave the loop and return.
ScreenLoop(B, f, res) ==
    IF f.todo = <<>> THEN ScreenReturn(B, res)
    ELSE ScreenCall(B, [f EXCEPT !.pc = "children", !.todo = Tail(f.todo)], Head(f.todo))

\* The setup branch of build.  Node.setup stores the children and returns
\* the stored output node or null; ScreenNode.setup returns its output.
ScreenBuildSetup(B, f) ==
    LET n == f.node
        out == IF n \in ScreenScopes THEN ScreenSetup(n) ELSE SNull
        B1 == [B EXCEPT !.props[n].initialized = TRUE,
                        !.props[n].outputNode = out,
                        !.props[n].children =
                            IF n \in ScreenScopes THEN <<>> ELSE ScreenChildren(n)]
    IN IF ~B.props[n].initialized
       THEN ScreenLoop(B1, [f EXCEPT !.todo = ScreenValues(B1, n)], out)
       ELSE ScreenReturn(B, B.props[n].outputNode)

\* Node.analyze: the children are built by the first usage only.
ScreenBuildAnalyze(B, f) ==
    LET n == f.node
        B1 == [B EXCEPT !.data[n].usageCount = @ + 1]
    IN IF B1.data[n].usageCount = 1
       THEN ScreenLoop(B1, [f EXCEPT !.todo = ScreenValues(B1, n)], SNull)
       ELSE ScreenReturn(B1, SNull)

\* builder.getFragCoord()
FragCoord == <<"fragCoord">>

\* `vec2( ${ coord }.x, ${ size }.y - ${ coord }.y )`
FlippedCoord(coord, size) ==
    <<"vec2", "(">> \o coord \o <<".x", ",">> \o size \o <<".y", "-">> \o coord \o <<".y", ")">>

\* build after this.generate returned res: result = res || '', stored as the
\* snippet of a single-output node, and returned.
ScreenGenerated(B, n, res) ==
    IF ScreenGenerateOnce(n)
    THEN ScreenReturn([B EXCEPT !.data[n].snippet = OrEmpty(res)], OrEmpty(res))
    ELSE ScreenReturn(B, OrEmpty(res))

\* The generate function of the node of the top frame, up to its first
\* nested build: ScreenNode.generate for the scopes (the coordinate reads the
\* output node from the properties of screenSize when Y is flipped, the other
\* scopes call Node.generate); the name of the uniform for a UniformNode;
\* Node.generate otherwise.
ScreenGenerate(B, f) ==
    LET n == f.node
        size == B.props["size"].outputNode
    IN IF n = "coordinate"
       THEN IF B.flipY
            THEN LET B1 == [B EXCEPT !.read = size, !.reads = 1]
                 IN IF IsNode(size)
                    THEN ScreenCall(B1, [f EXCEPT !.pc = "size"], size.n)
                    ELSE [B1 EXCEPT !.error = "TypeError"]
            ELSE ScreenGenerated(B, n, SStr(FragCoord))
       ELSE IF n \in {"sizeUniform", "viewportUniform"}
       THEN ScreenGenerated(B, n, SStr(<<n>>))
       ELSE IF IsNode(B.props[n].outputNode)
       THEN ScreenCall(B, [f EXCEPT !.pc = "output"], B.props[n].outputNode.n)
       ELSE ScreenGenerated(B, n, SUndef)

\* The generate branch of build: the stored snippet, the first generate or
\* the placeholder for a single-output node; generate for the others.  Every
\* build of a screen node is called without an output type, so
\* builder.format has nothing to cast.
ScreenBuildGenerate(B, f) ==
    LET n == f.node
    IN IF ScreenGenerateOnce(n)
       THEN IF B.data[n].snippet # SUndef THEN ScreenReturn(B, B.data[n].snippet)
            ELSE IF ~B.data[n].generated
            THEN ScreenGenerate([B EXCEPT !.data[n].generated = TRUE], f)
            ELSE ScreenReturn(B, SStr(<<RecursionSnippet>>))
       ELSE ScreenGenerate(B, f)

\* build from builder.addNode( this ) on.
ScreenDispatch(B, f) ==
    CASE B.buildStage = "setup" -> ScreenBuildSetup(B, f)
      [] B.buildStage = "analyze" -> ScreenBuildAnalyze(B, f)
      [] B.buildStage = "generate" -> ScreenBuildGenerate(B, f)

ScreenTop == screen.stack[Len(screen.stack)]

ScreenRunning(pc) ==
    /\ screen.error = "none" /\ screen.stack # <<>> /\ ScreenTop.pc = pc

ScreenStep(B) ==
    /\ screen' = B
    /\ UNCHANGED <<graph, compile, fields, expr, event>>

\* builder.setBuildStage( stage ); node.build( builder ) on one of the
\* module's screen nodes, from outside any build.
ScreenBuild(n, stage) ==
    /\ screen.error = "none" /\ screen.stack = <<>>
    /\ screen.builds < MaxBuilds
    /\ ScreenStep([screen EXCEPT !.buildStage = stage, !.builds = @ + 1,
                                 !.stack = <<ScreenFrame(n)>>,
                                 !.read = SUndef, !.reads = 0])

\* build from its first line to its first nested build call or its return:
\* the stage is marked, and a missing parent stage is built first.
ScreenEnter ==
    /\ ScreenRunning("enter")
    /\ LET f == ScreenTop
           n == f.node
           B == [screen EXCEPT !.data[n].buildStages = @ \cup {screen.buildStage}]
           parent == ParentBuildStage(screen.buildStage)
       IN IF parent # "" /\ parent \notin B.data[n].buildStages
          THEN ScreenStep(ScreenCall([B EXCEPT !.buildStage = parent],
                                     [f EXCEPT !.pc = "backfill", !.prev = screen.buildStage],
                                     n))
          ELSE ScreenStep(ScreenDispatch(B, f))

\* build after the build of the parent stage returned.
ScreenBackfilled ==
    /\ ScreenRunning("backfill")
    /\ ScreenStep(ScreenDispatch([screen EXCEPT !.buildStage = ScreenTop.prev], ScreenTop))

\* The setup branch or Node.analyze after childNode.build returned.
ScreenChildBuilt ==
    /\ ScreenRunning("children")
    /\ ScreenStep(ScreenLoop(screen, ScreenTop,
                             IF screen.buildStage = "setup"
                             THEN screen.props[ScreenTop.node].outputNode ELSE SNull))

\* ScreenNode.generate of the coordinate after the build of the size's
\* output node returned.
ScreenSizeBuilt ==
    /\ ScreenRunning("size")
    /\ ScreenStep(ScreenGenerated(screen, ScreenTop.node,
                                  SStr(FlippedCoord(FragCoord, screen.ret.s))))

\* Node.generate after outputNode.build returned.
ScreenOutputBuilt ==
    /\ ScreenRunning("output")
    /\ ScreenStep(ScreenGenerated(screen, ScreenTop.node, screen.ret))

\* ------------------------------------------------- identity and cache key
\* NodeUpdateType values given to onUpdate.
UpdateTypes == {"frame"}

\* _cacheKey === null
NoKey == <<>>

\* customCacheKey: 0 by default, PropertyNode hashes type:name:varying.
CustomCacheKey(n) ==
    IF kind[n] = "PropertyNode"
    THEN <<"float", name[n], IF varying[n] THEN "1" ELSE "0">>
    ELSE <<>>

\* hash( childrenKey, customCacheKey ): the combination of its arguments.
HashKey(childKeys, custom) == <<custom, childKeys>>

NextNodeIdSame(c) == c

\* _nodeId ++
NextNodeId(c) == c + 1

ForceAsGiven(st, n, force) == force

\* force = force || this.version !== this._cacheKeyVersion
Force(st, n, force) == force \/ version[n] # st.cv[n]

OwnKeyWithName(n, childKeys) == HashKey(childKeys, <<"node", PropertyName(n)>>)

\* hash( getCacheKey( this, force ), this.customCacheKey() )
OwnKey(n, childKeys) == HashKey(childKeys, CustomCacheKey(n))

KeyMissingNever(st, n) == FALSE

\* this._cacheKey === null
KeyMissing(st, n) == st.ck[n] = NoKey

ChildForceNever(force) == FALSE

\* getCacheKey( this, force ) hands force to every child's getCacheKey
ChildForce(force) == force

\* Node.getCacheKey on the memo st (ck: _cacheKey, cv: _cacheKeyVersion of
\* every node); r is the returned key, seen the nodes asked for their key and
\* done the nodes that recomputed it.
RECURSIVE GetCacheKeyOf(_, _, _)
RECURSIVE ChildKeys(_, _, _, _)
ChildKeys(todo, force, st, keys) ==
    IF todo = <<>> THEN [st |-> st, keys |-> keys]
    ELSE LET c == GetCacheKeyOf(Head(todo), force, st)
         IN ChildKeys(Tail(todo), force, c, Append(keys, c.r))

GetCacheKeyOf(n, force0, st0) ==
    LET force == Force(st0, n, force0)
        st == [st0 EXCEPT !.seen = @ \cup {n}]
    IN IF force \/ KeyMissing(st, n)
       THEN LET kids == ChildKeys(Children(n), ChildForce(force), st, <<>>)
                key == OwnKey(n, kids.keys)
            IN [kids.st EXCEPT !.ck[n] = key, !.cv[n] = version[n], !.r = key,
                               !.done = @ \cup {n}]
       ELSE [st EXCEPT !.r = st.ck[n]]

\* The descendants of a node, the node included.
RECURSIVE Descendants(_)
Descendants(n) ==
    {n} \cup UNION {Descendants(Children(n)[i]) : i \in 1..Len(Children(n))}

\* The key a computation from scratch gives: a function of the subgraph's
\* structure and of the customCacheKey values in it.
RECURSIVE FreshKey(_)
FreshKey(n) ==
    HashKey([i \in 1..Len(Children(n)) |-> FreshKey(Children(n)[i])], CustomCacheKey(n))

NoCall == [node |-> Null]
NoChange == [leaf |-> Null]

\* The number of times needsUpdate was set so far.
Bumps == version[1] + version[2] + version[3]

\* new Node(), new PropertyNode( type, name, varying ): the next object, with
\* nodes constructed before as its inputs.
Construct(k, a, nm, vy) ==
    LET n == Cardinality(created) + 1
    IN /\ n \in Nodes
       /\ a \in created \cup {Null}
       /\ k = "PropertyNode" => a = Null
       /\ k = "Node" => nm = "" /\ ~vy
       /\ created' = created \cup {n}
       /\ kind' = [kind EXCEPT ![n] = k]
       /\ aNode' = [aNode EXCEPT ![n] = a]
       /\ name' = [name EXCEPT ![n] = nm]
       /\ varying' = [varying EXCEPT ![n] = vy]
       /\ id' = [id EXCEPT ![n] = nodeId]
       /\ nodeId' = NextNodeId(nodeId)
       /\ change' = NoChange
       /\ last' = NoCall
       /\ event' = NoEvent
       /\ UNCHANGED <<bNode, version, cacheKey, cacheKeyVersion, updateType, compile, expr, screen>>

\* The values a caller assigns to needsUpdate: the two booleans and a truthy
\* value that is not `true`.
AssignedValues == {"true", "false", "1"}

IsTruthy(value) == value # "false"

\* value === true
IsTrue(value) == value = "true"

\* node.needsUpdate = value
NeedsUpdate(n, value) ==
    /\ n \in created
    /\ Bumps < MaxVersion
    /\ version' = IF IsTrue(value) THEN [version EXCEPT ![n] = @ + 1] ELSE version
    /\ last' = NoCall
    /\ event' = NoEvent
    /\ UNCHANGED <<graph, created, nodeId, id, cacheKey, cacheKeyVersion, updateType,
                   change, compile, expr, screen>>

\* The caller gives a PropertyNode another name and signals it:
\* node.name = nm; node.needsUpdate = true
ChangeName(n, nm) ==
    /\ n \in created /\ kind[n] = "PropertyNode"
    /\ nm # name[n]
    /\ Bumps < MaxVersion
    /\ name' = [name EXCEPT ![n] = nm]
    /\ version' = [version EXCEPT ![n] = @ + 1]
    /\ change' = [leaf |-> n, node |-> last.node,
                  asked |-> IF last.node # Null THEN last.result ELSE NoKey]
    /\ last' = NoCall
    /\ event' = NoEvent
    /\ UNCHANGED <<kind, aNode, bNode, varying, created, nodeId, id, cacheKey,
                   cacheKeyVersion, updateType, compile, expr, screen>>

\* node.getCacheKey( force ), called from outside
GetCacheKey(n, force) ==
    /\ n \in created
    /\ LET st == GetCacheKeyOf(n, force,
                               [ck |-> cacheKey, cv |-> cacheKeyVersion, r |-> NoKey,
                                seen |-> {}, done |-> {}])
       IN /\ cacheKey' = st.ck
          /\ cacheKeyVersion' = st.cv
          /\ last' = [node |-> n, force |-> force, result |-> st.r,
                      seen |-> st.seen, done |-> st.done,
                      forced |-> force \/ version[n] # cacheKeyVersion[n],
                      changed |-> change.leaf \in Descendants(n) /\ change.leaf # n,
                      asked |-> IF change.leaf # Null /\ change.node = n
                                THEN change.asked ELSE NoKey]
    /\ event' = NoEvent
    /\ UNCHANGED <<graph, created, nodeId, id, version, updateType, change, compile, expr, screen>>

\* node.onUpdate( callback, updateType )
OnUpdate(n, type) ==
    /\ n \in created
    /\ updateType' = [updateType EXCEPT ![n] = type]
    /\ last' = NoCall
    /\ event' = NoEvent
    /\ UNCHANGED <<graph, created, nodeId, id, version, cacheKey, cacheKeyVersion,
                   change, compile, expr, screen>>

DispatchedWithChildren(n, type) ==
    <<[type |-> type, target |-> n]>>
        \o (IF aNode[n] # Null THEN <<[type |-> type, target |-> aNode[n]]>> ELSE <<>>)

\* this.dispatchEvent( { type } ): one event, whose target is the node, goes
\* to the listeners registered on the node.
Dispatched(n, type) == <<[type |-> type, target |-> n]>>

\* node.dispose(): dispatches the 'dispose' event to the listeners and writes
\* no field of the node.
Dispose(n) ==
    /\ n \in created
    /\ event' = [call |-> "dispose", node |-> n, dispatched |-> Dispatched(n, "dispose"),
                 warnings |-> 0, threw |-> FALSE]
    /\ last' = NoCall
    /\ UNCHANGED <<graph, compile, created, nodeId, id, version, cacheKey, cacheKeyVersion,
                   updateType, change, expr, screen>>

AbstractThrows(method) == [warnings |-> 0, threw |-> TRUE]

\* The body of updateBefore, updateAfter and update of Node:
\* console.warn( 'Abstract function.' ), and nothing else.
Abstract(method) == [warnings |-> 1, threw |-> FALSE]

UpdateMethods == {"updateBefore", "updateAfter", "update"}

\* node.updateBefore( frame ), node.updateAfter( frame ) or node.update( frame )
\* on a node of a class that does not override the method.
Update(n, method) ==
    /\ n \in created
    /\ event' = [call |-> method, node |-> n, dispatched |-> <<>>,
                 warnings |-> Abstract(method).warnings, threw |-> Abstract(method).threw]
    /\ last' = NoCall
    /\ UNCHANGED <<graph, compile, created, nodeId, id, version, cacheKey, cacheKeyVersion,
                   updateType, change, expr, screen>>

\* node.deserialize( json ) with json.inputNodes naming node c: run while a
\* document is loaded, on a node constructed without inputs and before any key
\* is computed; a document holds no cycle.
Deserialize(n, c) ==
    /\ n \in created /\ c \in created
    /\ kind[n] = "Node" /\ aNode[n] = Null
    /\ n \notin Descendants(c)
    /\ \A m \in Nodes : cacheKey[m] = NoKey
    /\ aNode' = [aNode EXCEPT ![n] = c]
    /\ change' = NoChange
    /\ last' = NoCall
    /\ event' = NoEvent
    /\ UNCHANGED <<kind, bNode, name, varying, created, nodeId, id, version, cacheKey,
                   cacheKeyVersion, updateType, compile, expr, screen>>

CacheInit ==
    /\ kind = [n \in Nodes |-> "Node"]
    /\ aNode = [n \in Nodes |-> Null]
    /\ bNode = [n \in Nodes |-> Null]
    /\ name = [n \in Nodes |-> ""]
    /\ varying = [n \in Nodes |-> FALSE]
    /\ builder = NewBuilder
    /\ other = NewBuilder
    /\ stack = <<>>
    /\ ret = RUndef
    /\ hist = NoHist
    /\ builds = 0
    /\ err = FALSE
    /\ created = {}
    /\ nodeId = 0
    /\ id = [n \in Nodes |-> Undef]
    /\ version = [n \in Nodes |-> 0]
    /\ cacheKey = [n \in Nodes |-> NoKey]
    /\ cacheKeyVersion = [n \in Nodes |-> 0]
    /\ updateType = [n \in Nodes |-> "none"]
    /\ last = NoCall
    /\ change = NoChange
    /\ expr = NoExpr
    /\ event = NoEvent
    /\ screen = NewScreen(FALSE)

CacheNext ==
    \/ \E k \in {"Node", "PropertyNode"}, a \in Nodes \cup {Null}, nm \in Names :
          Construct(k, a, nm, FALSE)
    \/ \E n \in Nodes, value \in AssignedValues : NeedsUpdate(n, value)
    \/ \E n \in Nodes, nm \in Names : ChangeName(n, nm)
    \/ \E n \in Nodes, force \in BOOLEAN : GetCacheKey(n, force)
    \/ \E n, c \in Nodes : Deserialize(n, c)

CacheSpec == CacheInit /\ [][CacheNext]_vars

\* The life of the node objects: construction and every operation on a node.
IdNext ==
    \/ \E k \in {"Node", "PropertyNode"}, a \in Nodes \cup {Null} :
          Construct(k, a, "", FALSE)
    \/ \E n \in Nodes, value \in AssignedValues : NeedsUpdate(n, value)
    \/ \E n \in Nodes, force \in BOOLEAN : GetCacheKey(n, force)
    \/ \E n \in Nodes, type \in UpdateTypes : OnUpdate(n, type)
    \/ Dispose(1)
    \/ \E n, c \in Nodes : Deserialize(n, c)

IdSpec == CacheInit /\ [][IdNext]_vars

\* ------------------------------------------------------------- the graphs
\* Three node objects: nodes 1 and 2 are of any class with any references,
\* cycles and equal names included; node 3 is an unnamed plain PropertyNode, a
\* leaf.
WellFormed(k, a, b, nm, vy) ==
    \A n \in Nodes :
        CASE k[n] = "Node" -> b[n] = Null /\ nm[n] = "" /\ ~vy[n]
          [] k[n] = "SetupNode" -> a[n] # Null /\ b[n] = Null /\ nm[n] = "" /\ ~vy[n]
          [] k[n] = "BypassNode" -> a[n] # Null /\ b[n] # Null /\ nm[n] = "" /\ ~vy[n]
          [] k[n] = "VaryingNode" -> a[n] # Null /\ b[n] = Null /\ ~vy[n]
          [] OTHER -> a[n] = Null /\ b[n] = Null

Init ==
    /\ kind \in [Nodes -> Kinds]
    /\ aNode \in [Nodes -> Nodes \cup {Null}]
    /\ bNode \in [Nodes -> Nodes \cup {Null}]
    /\ name \in [Nodes -> Names]
    /\ varying \in [Nodes -> BOOLEAN]
    /\ WellFormed(kind, aNode, bNode, name, varying)
    /\ kind[3] = "PropertyNode" /\ name[3] = "" /\ ~varying[3]
    /\ builder = NewBuilder
    /\ other = NewBuilder
    /\ stack = <<>>
    /\ ret = RUndef
    /\ hist = NoHist
    /\ builds = 0
    /\ err = FALSE
    /\ created = Nodes
    /\ nodeId = Cardinality(Nodes)
    /\ id = [n \in Nodes |-> n - 1]
    /\ version = [n \in Nodes |-> 0]
    /\ cacheKey = [n \in Nodes |-> NoKey]
    /\ cacheKeyVersion = [n \in Nodes |-> 0]
    /\ updateType = [n \in Nodes |-> "none"]
    /\ last = NoCall
    /\ change = NoChange
    /\ expr = NoExpr
    /\ event = NoEvent
    /\ screen = NewScreen(FALSE)

Next ==
    \/ \E n \in Nodes, stage \in Stages, shaderStage \in ShaderStages :
          TopBuild(n, stage, shaderStage)
    \/ Enter
    \/ Delegated
    \/ Backfilled
    \/ SetupFlowed
    \/ SetupLoop
    \/ AnalyzeFlowed
    \/ AnalyzeLoop
    \/ BypassCalled
    \/ BypassReturned
    \/ GenerateReturned
    \/ VaryingFlowed

Spec == Init /\ [][Next]_vars

\* A whole compile: the builder takes the root through the three build stages
\* in turn, one top-level build each, in one shader stage.
Root == 1
Passes == <<"setup", "analyze", "generate">>

CompilePass(shaderStage) ==
    /\ ~err /\ stack = <<>> /\ builds < Len(Passes)
    /\ builds > 0 => shaderStage = builder.shaderStage
    /\ builder' = [builder EXCEPT !.buildStage = Passes[builds + 1],
                                  !.shaderStage = shaderStage]
    /\ stack' = <<Frame(Root, "")>>
    /\ builds' = builds + 1
    /\ event' = NoEvent
    /\ UNCHANGED <<graph, other, ret, hist, err, fields, expr, screen>>

\* No build of such a compile forces an earlier stage (PassesSequential), so
\* no build ever waits for a forced one to return.
CompileNext ==
    \/ \E shaderStage \in ShaderStages : CompilePass(shaderStage)
    \/ Enter
    \/ Delegated
    \/ SetupFlowed
    \/ SetupLoop
    \/ AnalyzeFlowed
    \/ AnalyzeLoop
    \/ BypassCalled
    \/ BypassReturned
    \/ GenerateReturned
    \/ VaryingFlowed

CompileSpec == Init /\ [][CompileNext]_vars

\* A graph compiled several times, through one builder or two, while its root
\* is signalled and asked for its key between the compiles: the root flows
\* node 2 into a varying, node 2 is of a class with the base analyze and node 3
\* is its leaf.
LifeInit ==
    /\ kind \in {<<"VaryingNode", k, "PropertyNode">> : k \in {"Node", "SetupNode", "BypassNode"}}
    /\ aNode = <<2, 3, Null>>
    /\ bNode \in {<<Null, b, Null>> : b \in {Null, 3}}
    /\ name \in {<<nm, "", "">> : nm \in Names}
    /\ varying = [n \in Nodes |-> FALSE]
    /\ WellFormed(kind, aNode, bNode, name, varying)
    /\ builder = NewBuilder
    /\ other = NewBuilder
    /\ stack = <<>>
    /\ ret = RUndef
    /\ hist = NoHist
    /\ builds = 0
    /\ err = FALSE
    /\ created = Nodes
    /\ nodeId = Cardinality(Nodes)
    /\ id = [n \in Nodes |-> n - 1]
    /\ version = [n \in Nodes |-> 0]
    /\ cacheKey = [n \in Nodes |-> NoKey]
    /\ cacheKeyVersion = [n \in Nodes |-> 0]
    /\ updateType = [n \in Nodes |-> "none"]
    /\ last = NoCall
    /\ change = NoChange
    /\ expr = NoExpr
    /\ event = NoEvent
    /\ screen = NewScreen(FALSE)

\* Callers run between the builds, never inside one.
Idle == stack = <<>> /\ ~err

\* new NodeBuilder(): the caller goes on with a fresh builder (the compile for
\* another material); the builder used so far keeps its state.
SecondBuilder ==
    /\ Idle
    /\ other = NewBuilder /\ builder # NewBuilder
    /\ other' = builder
    /\ builder' = NewBuilder
    /\ event' = NoEvent
    /\ UNCHANGED <<graph, stack, ret, hist, builds, err, fields, expr, screen>>

LifeNext ==
    \/ \E stage \in Stages, shaderStage \in ShaderStages :
          TopBuild(Root, stage, shaderStage)
    \/ Enter
    \/ Backfilled
    \/ SetupFlowed
    \/ SetupLoop
    \/ AnalyzeFlowed
    \/ AnalyzeLoop
    \/ BypassCalled
    \/ BypassReturned
    \/ GenerateReturned
    \/ VaryingFlowed
    \/ \E value \in AssignedValues : Idle /\ NeedsUpdate(Root, value)
    \/ \E force \in BOOLEAN : Idle /\ GetCacheKey(Root, force)
    \/ Idle /\ Dispose(Root)
    \/ \E method \in UpdateMethods : Idle /\ Update(Root, method)
    \/ SecondBuilder

LifeSpec == LifeInit /\ [][LifeNext]_vars


\* ---------------------------------------- operator and math nodes, alone
\* One expression is made or typed in a behaviour: the constructors and
\* getNodeType read nothing that an earlier call wrote.
OperatorNext ==
    \/ /\ expr = NoExpr
       /\ \E op \in Operators, a \in Types, b \in Types \cup {NoType}, output \in Outputs :
              AskNodeType(op, a, b, output)
    \/ /\ expr = NoExpr
       /\ \E op \in Operators, n \in 1..MaxOperands : NewOperatorNode(op, n)
    \/ /\ expr = NoExpr
       /\ \E method \in Methods, n \in 1..MaxOperands : NewMathNode(method, n)
    \/ /\ expr = NoExpr
       /\ \E method \in GeneratedMethods, shaderStage \in ShaderStages :
              GenerateMath(method, shaderStage)

OperatorSpec == CacheInit /\ [][OperatorNext]_vars

\* ------------------------------------------------- the screen nodes, alone
\* Builds of the module's screen nodes in one builder, whose Y axis is
\* flipped or not; the other nodes take no part.
ScreenInit ==
    /\ kind = [n \in Nodes |-> "Node"]
    /\ aNode = [n \in Nodes |-> Null]
    /\ bNode = [n \in Nodes |-> Null]
    /\ name = [n \in Nodes |-> ""]
    /\ varying = [n \in Nodes |-> FALSE]
    /\ builder = NewBuilder
    /\ other = NewBuilder
    /\ stack = <<>>
    /\ ret = RUndef
    /\ hist = NoHist
    /\ builds = 0
    /\ err = FALSE
    /\ created = {}
    /\ nodeId = 0
    /\ id = [n \in Nodes |-> Undef]
    /\ version = [n \in Nodes |-> 0]
    /\ cacheKey = [n \in Nodes |-> NoKey]
    /\ cacheKeyVersion = [n \in Nodes |-> 0]
    /\ updateType = [n \in Nodes |-> "none"]
    /\ last = NoCall
    /\ change = NoChange
    /\ expr = NoExpr
    /\ event = NoEvent
    /\ \E flipY \in BOOLEAN : screen = NewScreen(flipY)

ScreenNext ==
    \/ \E n \in ScreenScopes, stage \in Stages : ScreenBuild(n, stage)
    \/ ScreenEnter
    \/ ScreenBackfilled
    \/ ScreenChildBuilt
    \/ ScreenSizeBuilt
    \/ ScreenOutputBuilt

ScreenSpec == ScreenInit /\ [][ScreenNext]_vars

\* ------------------------------------------------------------ properties
StageCalls(n) == hist.setupCalls[n] + hist.analyzeCalls[n] + hist.generateCalls[n]

\* The activations of build in which a generate function is running.
GeneratePcs == {"genCall", "genOutOnce", "genOut", "genFlow"}
ActiveGenerates(n) ==
    Cardinality({i \in 1..Len(stack) : stack[i].node = n /\ stack[i].pc \in GeneratePcs})

\* The build call of the top frame is about to run build's first line.
Entering(stage) ==
    /\ ~err /\ stack # <<>> /\ Top.pc = "enter"
    /\ builder.buildStage = stage
    /\ GetNodeFromHash(builder, Hash(Top.node)) \in {Null, Top.node}

\* C1: for every node, the analyze function is never invoked before the
\* node's setup stage has completed, and the generate function is never
\* invoked before its analyze stage has completed, nested builds included.
StageOrder ==
    \A n \in Nodes :
        /\ hist.analyzeCalls[n] > 0 => n \in hist.setupDone
        /\ hist.generateCalls[n] > 0 => n \in hist.analyzeDone

\* A node first met in the generate stage, inside another node's build, is
\* running its generate function.
StageOrderWitness ==
    \E i \in 2..Len(stack) :
        /\ stack[i].node \in hist.freshGen
        /\ stack[i].pc \in GeneratePcs

\* C2 as claimed: a node first built in the generate stage has, when its
\* generate function is invoked, run setup exactly once and analyze exactly
\* once, its outputNode is populated and its usage count is at least 1.
BackfillExactlyOnce ==
    \A n \in hist.freshGen :
        hist.genAt[n] # NotYet =>
            /\ hist.genAt[n].setups = 1
            /\ hist.genAt[n].analyzes = 1
            /\ hist.genAt[n].out # Undef
            /\ hist.genAt[n].usage >= 1

\* C2 as amended: a node first built in the generate stage has, when its
\* generate function is invoked, run setup exactly once and analyze at least
\* once, its outputNode is populated (a node or null), and its usage count is
\* at least 1 unless it is a VaryingNode, whose analyze does not count usage.
BackfillBeforeGenerate ==
    \A n \in hist.freshGen :
        hist.genAt[n] # NotYet =>
            /\ hist.genAt[n].setups = 1
            /\ hist.genAt[n].analyzes >= 1
            /\ hist.genAt[n].out # Undef
            /\ kind[n] # "VaryingNode" => hist.genAt[n].usage >= 1
            /\ kind[n] = "VaryingNode" => hist.genAt[n].usage = 0

BackfillWitness ==
    \E n \in hist.freshGen :
        /\ hist.genAt[n] # NotYet
        /\ hist.genAt[n].analyzes = 1
        /\ builds = 1

\* C3: of the nodes that share a hash only the registered one ever has its
\* setup, analyze or generate function invoked, and a build of any other one
\* returns exactly what the build of the registered node returned.
SharedNodeBuiltOnce ==
    /\ [](\A n \in Nodes : StageCalls(n) > 0 => GetNodeFromHash(builder, Hash(n)) = n)
    /\ [](\A n, m \in Nodes : n # m /\ Hash(n) = Hash(m) => StageCalls(n) = 0 \/ StageCalls(m) = 0)
    /\ [][(~err /\ stack # <<>> /\ Top.pc = "delegated")
            => (ret' = ret /\ stack' = Pop(stack) /\ hist' = hist /\ builder' = builder)]_vars

\* A build of a node was delegated to the registered node with its hash,
\* which returned a generated string.
SharedNodeWitness ==
    /\ stack # <<>> /\ Top.pc = "delegated"
    /\ ret.k = "string" /\ ret.s # ""
    /\ StageCalls(GetNodeFromHash(builder, Hash(Top.node))) > 0

\* C4: setup is invoked at most once per node, and a setup-stage build of a
\* node that is already initialized returns the stored outputNode at once,
\* without invoking setup and without building any child.
SetupOnce ==
    /\ [](\A n \in Nodes : hist.setupCalls[n] <= 1)
    /\ [][(Entering("setup") /\ builder.props[Top.node].initialized)
            => /\ stack' = Pop(stack)
               /\ ret' = Val(builder.props[Top.node].outputNode)
               /\ hist' = hist
               /\ builder'.props = builder.props]_vars

\* A setup-stage build re-enters a node whose setup-stage build is still
\* looping over its children.
SetupOnceWitness ==
    /\ Entering("setup")
    /\ builder.props[Top.node].initialized
    /\ \E i \in 1..(Len(stack) - 1) :
          stack[i].node = Top.node /\ stack[i].pc = "setupLoop"

\* C5: the generate function of a single-output node is invoked at most
\* once, and a generate-stage build made once the snippet is stored returns
\* the stored snippet formatted for the requested output, without invoking
\* generate.
GenerateOnceMemo ==
    /\ [](\A n \in Nodes : IsGenerateOnce(n) => hist.generateCalls[n] <= 1)
    /\ [][(Entering("generate") /\ IsGenerateOnce(Top.node)
             /\ builder.data[Top.node].snippet # RUndef)
            => /\ ~err'
               /\ stack' = Pop(stack)
               /\ ret' = Format(builder.data[Top.node].snippet, "float", Top.output)
               /\ hist' = hist]_vars

\* A nested generate-stage build asks for a node whose snippet is stored,
\* with an output type that makes format cast it.
GenerateOnceWitness ==
    /\ Entering("generate")
    /\ Len(stack) >= 2
    /\ Top.output = "void"
    /\ builder.data[Top.node].snippet # RUndef

\* C6: a generate-stage build that re-enters a single-output node whose
\* generation is in progress returns the formatted placeholder without
\* invoking generate and without an error, and the build it interrupted
\* returns a string.
RecursionPlaceholder ==
    /\ [][(Entering("generate") /\ IsGenerateOnce(Top.node)
             /\ ActiveGenerates(Top.node) > 0)
            => /\ ~err'
               /\ stack' = Pop(stack)
               /\ ret' = Format(RStr(RecursionSnippet), "float", Top.output)
               /\ hist' = hist]_vars
    /\ [][(~err /\ stack # <<>> /\ Top.pc \in {"genOutOnce", "genFlow"} /\ ~err')
            => (stack' = Pop(stack) /\ ret'.k = "string")]_vars

\* The placeholder has been returned to a generate function that is running.
RecursionWitness ==
    /\ stack # <<>> /\ Top.pc \in GeneratePcs
    /\ IsGenerateOnce(Top.node)
    /\ ret.s = RecursionSnippet

\* C7 as claimed: for every node kind, a generate function that builds its
\* own node again is not invoked a second time while it is running (the
\* re-entrant build gets a placeholder instead).
CycleSafety == \A n \in Nodes : ActiveGenerates(n) <= 1

\* C8: with the base analyze, the usage counter equals the number of
\* analyze-stage builds of the node, and the node's property children are
\* built from it only in the build that made the counter 1: once each.
UsageCounter ==
    \A n \in Nodes :
        kind[n] # "VaryingNode" =>
            /\ builder.data[n].usageCount = hist.analyzeCalls[n]
            /\ hist.analyzeFanout[n] = (IF hist.analyzeCalls[n] >= 1 THEN 1 ELSE 0)
            /\ hist.analyzeChildBuilds[n] <= Len(NodeValues(builder, n))
            /\ n \in hist.analyzeDone =>
                   hist.analyzeChildBuilds[n] = Len(NodeValues(builder, n))

\* A node with children has been analyzed twice.
UsageCounterWitness ==
    \E n \in Nodes :
        /\ builder.data[n].usageCount >= 2
        /\ Len(NodeValues(builder, n)) >= 1
        /\ n \in hist.analyzeDone
        /\ stack = <<>>

\* C9: over all the VaryingNodes that carry one name, getVaryingFromNode is
\* called at most once and the source is flowed into the vertex stage under
\* the slot's property name at most once; both exactly once for the one that
\* has been generated.
SameName(n) ==
    {m \in Nodes : kind[m] = "VaryingNode" /\ name[m] = name[n] /\ (name[n] # "" \/ m = n)}

RECURSIVE Sum(_, _)
Sum(f, S) == IF S = {} THEN 0 ELSE LET x == CHOOSE y \in S : TRUE IN f[x] + Sum(f, S \ {x})

VaryingOnce ==
    \A n \in Nodes :
        kind[n] = "VaryingNode" =>
            /\ Sum(hist.getVaryingCalls, SameName(n)) <= 1
            /\ Sum(hist.flowBound, SameName(n)) <= 1
            /\ builder.data[n].snippet # RUndef =>
                   hist.getVaryingCalls[n] = 1 /\ hist.flowBound[n] = 1

\* Two VaryingNodes with one name: both were built in the generate stage and
\* one slot was allocated.
VaryingOnceWitness ==
    \E n, m \in Nodes :
        /\ n # m /\ m \in SameName(n) /\ kind[n] = "VaryingNode"
        /\ builder.data[n].snippet # RUndef
        /\ stack # <<>> /\ Top.node = m /\ Top.pc = "delegated"
        /\ builder.buildStage = "generate"

\* C10: setupVarying allocates the slot and stores it with the source on its
\* first call; no later call, in any build stage or shader stage, calls
\* getVaryingFromNode or replaces what was stored.
SetupVaryingIdempotent ==
    /\ [](\A n \in Nodes :
            /\ hist.getVaryingCalls[n] = (IF hist.setupVaryingCalls[n] >= 1 THEN 1 ELSE 0)
            /\ builder.props[n].varying <=> hist.setupVaryingCalls[n] >= 1
            /\ builder.props[n].varying =>
                   builder.varyings[n].allocated /\ builder.props[n].node = aNode[n])
    /\ [][\A n \in Nodes :
            builder.props[n].varying =>
                /\ builder'.props[n].varying
                /\ builder'.props[n].node = builder.props[n].node
                /\ hist'.getVaryingCalls[n] = hist.getVaryingCalls[n]]_vars

\* setupVarying has run in all three build stages and in both shader stages.
SetupVaryingWitness ==
    \E n \in Nodes :
        /\ hist.setupVaryingCalls[n] >= 3
        /\ builder.varyings[n].needsInterpolation
        /\ builds = 2

Named == {n \in Nodes : kind[n] \in {"VaryingNode", "PropertyNode"}}

Slots(S) == {m \in S : builder.varyings[m].allocated \/ builder.nodeVars[m]}

HashByName ==
    \A n \in Named :
        /\ name[n] # "" => Hash(n).name = name[n]
        /\ name[n] = "" => Hash(n) = HashUuid(n)
        /\ \A m \in Named :
              /\ (name[n] # "" /\ name[m] = name[n]) =>
                    /\ Hash(n) = Hash(m)
                    /\ Cardinality(Slots({n, m})) <= 1
              /\ (n # m /\ name[n] = "" /\ name[m] = "") => Hash(n) # Hash(m)

\* A VaryingNode and a PropertyNode carry one name: one of them has its slot,
\* the build of the other one was delegated to it.
HashByNameWitness ==
    \E n, m \in Named :
        /\ kind[n] # kind[m] /\ name[n] # "" /\ name[n] = name[m]
        /\ Slots({n}) = {n}
        /\ stack # <<>> /\ Top.node = m /\ Top.pc = "delegated"

\* C14: the generate function of a PropertyNode runs at most once; it
\* allocates a plain variable when the node is not a varying and a slot marked
\* needsInterpolation when it is; every later generate-stage build returns the
\* stored property name without a new allocation, and the PropertyNodes that
\* carry one name have one allocation between them.
SamePropertyName(n) ==
    {m \in Nodes : kind[m] = "PropertyNode" /\ name[m] = name[n] /\ (name[n] # "" \/ m = n)}

PropertyOnce ==
    /\ [](\A n \in Nodes :
            kind[n] = "PropertyNode" =>
                /\ hist.generateCalls[n] <= 1
                /\ hist.propertyVarCalls[n] + hist.propertyVaryingCalls[n]
                       = hist.generateCalls[n]
                /\ varying[n] =>
                       /\ hist.propertyVarCalls[n] = 0 /\ ~builder.nodeVars[n]
                       /\ hist.generateCalls[n] = 1 =>
                              /\ builder.varyings[n].allocated
                              /\ builder.varyings[n].needsInterpolation
                              /\ builder.data[n].snippet = RStr(VaryingName(n))
                /\ ~varying[n] =>
                       /\ hist.propertyVaryingCalls[n] = 0
                       /\ ~builder.varyings[n].allocated
                       /\ hist.generateCalls[n] = 1 =>
                              /\ builder.nodeVars[n]
                              /\ builder.data[n].snippet = RStr(PropertyName(n))
                /\ Sum(hist.propertyVarCalls, SamePropertyName(n))
                     + Sum(hist.propertyVaryingCalls, SamePropertyName(n)) <= 1)
    /\ [][(Entering("generate") /\ kind[Top.node] = "PropertyNode"
             /\ builder.data[Top.node].snippet # RUndef)
            => /\ ~err'
               /\ stack' = Pop(stack)
               /\ ret' = Format(builder.data[Top.node].snippet, "float", Top.output)
               /\ hist' = hist
               /\ builder'.varyings = builder.varyings
               /\ builder'.nodeVars = builder.nodeVars]_vars

\* Two PropertyNodes carry one name: the varying one has its slot, and a
\* generate-stage build of the other one was delegated to it.
PropertyOnceWitness ==
    \E n, m \in Nodes :
        /\ n # m /\ m \in SamePropertyName(n)
        /\ varying[n] /\ ~varying[m]
        /\ builder.varyings[n].allocated
        /\ builder.buildStage = "generate"
        /\ stack # <<>> /\ Top.node = m /\ Top.pc = "delegated"

\* C15: when a build call returns, the builder's build stage is the one it had
\* when the call was made, whatever earlier stages the call forced the node
\* (and the nodes under it) through.
BuildStageRestored ==
    [][(~err /\ ~err' /\ stack # <<>> /\ stack' = Pop(stack))
         => builder'.buildStage =
               (IF Top.pc = "enter" THEN builder.buildStage ELSE Top.entry)]_vars

\* A nested generate-stage build has got back from the analyze-stage build it
\* forced, which itself forced the setup-stage build.
BuildStageWitness ==
    /\ ~err /\ Len(stack) >= 2
    /\ Top.pc = "backfill" /\ Top.prev = "generate"
    /\ builder.buildStage = "analyze"
    /\ "setup" \in builder.data[Top.node].buildStages

\* C16 as claimed: every build call, re-entrant ones included, returns a Node
\* or null in the setup stage, null in the analyze stage and a string in the
\* generate stage.
ReturnByStage ==
    [][(~err /\ ~err' /\ stack # <<>> /\ stack' = Pop(stack))
         => /\ builder'.buildStage = "setup" => ret'.k \in {"node", "null"}
            /\ builder'.buildStage = "analyze" => ret'.k = "null"
            /\ builder'.buildStage = "generate" => ret'.k = "string"]_vars

\* C17: every node gets at construction an id that no node constructed before
\* has, and no operation on a node ever changes its id.
IdStable ==
    /\ [](\A n \in created : id[n] # Undef /\ id[n] < nodeId)
    /\ [](\A n, m \in created : n # m => id[n] # id[m])
    /\ [][\A n \in created : id'[n] = id[n]]_vars

\* All the nodes are constructed and one of them has been signalled, asked for
\* its key and given an update callback.
IdStableWitness ==
    /\ created = Nodes
    /\ \E n \in Nodes :
          version[n] > 0 /\ cacheKey[n] # NoKey /\ updateType[n] # "none"

\* The force argument with which getCacheKey reaches node d in a call made on
\* node n with argument f.
RECURSIVE ParamForce(_, _, _)
ParamForce(d, n, f) ==
    IF d = n THEN f
    ELSE LET p == CHOOSE q \in Descendants(n) : Children(q) = <<d>>
         IN ParamForce(p, n, f) \/ version[p] # cacheKeyVersion[p]

\* The condition under which the claim says a call recomputes the key.
MustRecompute(d, f) ==
    f \/ cacheKey[d] = NoKey \/ version[d] # cacheKeyVersion[d]

\* C18: getCacheKey recomputes the key exactly when force is true, no key was
\* computed yet or the node's version differs from the recorded one; any other
\* call returns the memoized key and leaves it unchanged; after a call the
\* recorded version is the node's version.  The same holds for the calls it
\* makes on the children.
KeyMemo ==
    [][last'.node # Null =>
         LET n == last'.node
         IN /\ n \in last'.seen
            /\ last'.result = cacheKey'[n]
            /\ \A d \in last'.seen :
                  /\ d \in last'.done <=> MustRecompute(d, ParamForce(d, n, last'.force))
                  /\ d \notin last'.done =>
                         cacheKey'[d] = cacheKey[d] /\ cacheKeyVersion'[d] = cacheKeyVersion[d]
                  /\ cacheKeyVersion'[d] = version[d]
                  /\ \A i \in 1..Len(Children(d)) :
                         Children(d)[i] \in last'.seen <=> d \in last'.done
            /\ \A d \in Nodes \ last'.seen :
                  cacheKey'[d] = cacheKey[d] /\ cacheKeyVersion'[d] = cacheKeyVersion[d]]_vars

\* A call without force on a node with a child, signalled earlier, found its
\* key up to date and returned the memoized key.
KeyMemoWitness ==
    /\ last.node # Null /\ ~last.force
    /\ last.done = {}
    /\ version[last.node] > 0
    /\ Children(last.node) # <<>>

RECURSIVE FreshKeyWith(_, _, _)
FreshKeyWith(n, l, nm) ==
    HashKey([i \in 1..Len(Children(n)) |-> FreshKeyWith(Children(n)[i], l, nm)],
            IF n = l THEN <<"float", nm, IF varying[n] THEN "1" ELSE "0">>
            ELSE CustomCacheKey(n))

\* C20 as claimed: after a leaf was renamed and signalled, getCacheKey( true )
\* on an ancestor returns a key other than the one the ancestor returned just
\* before the change.
ForcedKeyDiffers ==
    (last.node # Null /\ last.force /\ last.changed /\ last.asked # NoKey)
        => last.result # last.asked

\* C20 as amended: getCacheKey( true ) recomputes the key of every descendant
\* and returns the key of the subgraph as it is now, which is not the key the
\* subgraph has with any other name in one of its leaves; it can equal the key
\* the ancestor returned before the change when that one was out of date.
ForcedKeyFresh ==
    (last.node # Null /\ last.force) =>
        /\ Descendants(last.node) = last.done
        /\ \A d \in Descendants(last.node) :
              cacheKey[d] = FreshKey(d) /\ cacheKeyVersion[d] = version[d]
        /\ last.result = FreshKey(last.node)
        /\ \A l \in Descendants(last.node), nm \in Names :
              (kind[l] = "PropertyNode" /\ nm # name[l])
                  => FreshKeyWith(last.node, l, nm) # last.result

\* A forced call on the root of a chain of three nodes, after its leaf was
\* renamed, returned another key than the root returned before the change.
ForcedKeyFreshWitness ==
    /\ last.node # Null /\ last.force /\ last.changed
    /\ Cardinality(Descendants(last.node)) = 3
    /\ last.asked # NoKey /\ last.result # last.asked

\* The memo as the nodes hold it now.
Memo == [ck |-> cacheKey, cv |-> cacheKeyVersion, r |-> NoKey, seen |-> {}, done |-> {}]

\* What node.getCacheKey( force ) would return if it were called now.
Returned(n, force) == GetCacheKeyOf(n, force, Memo).r

\* Two distinct nodes with equal customCacheKey values whose children have,
\* one by one, equal keys: the keys they return now and, recursively, the
\* keys of their subgraphs.
AlikeNodes(n, m) ==
    /\ n # m
    /\ CustomCacheKey(n) = CustomCacheKey(m)
    /\ Len(Children(n)) = Len(Children(m))
    /\ \A i \in 1..Len(Children(n)) :
          /\ Returned(Children(n)[i], FALSE) = Returned(Children(m)[i], FALSE)
          /\ FreshKey(Children(n)[i]) = FreshKey(Children(m)[i])

VersionMonotone ==
    /\ \A n \in Nodes : version[n] = 0
    /\ [][\A n \in Nodes : version'[n] >= version[n]]_vars
    /\ [][\A n \in Nodes, value \in AssignedValues :
            NeedsUpdate(n, value) =>
                /\ version'[n] = version[n] + (IF value = "true" THEN 1 ELSE 0)
                /\ \A m \in Nodes \ {n} : version'[m] = version[m]]_vars
    /\ [][(stack # <<>> \/ stack' # <<>> \/ last'.node # Null) => version' = version]_vars

\* A node signalled twice and then asked for its key is being built, its
\* generate function has been invoked.
VersionWitness ==
    /\ version[1] = 2
    /\ last.node = 1
    /\ stack # <<>>
    /\ hist.generateCalls[1] > 0

\* The nodes a node refers to, and the graphs in which no node is reached
\* from itself and no two nodes have one hash.
Refs(n) == {aNode[n], bNode[n]} \ {Null}

Reach1(n) == Refs(n)
Reach2(n) == Reach1(n) \cup UNION {Refs(m) : m \in Reach1(n)}
Reach3(n) == Reach2(n) \cup UNION {Refs(m) : m \in Reach2(n)}

PlainDag ==
    /\ \A n \in Nodes : n \notin Reach3(n)
    /\ \A n, m \in Nodes : n # m => Hash(n) # Hash(m)

\* The number of times a node's analyze function went into its children.
AnalyzeRecursions(n) ==
    IF kind[n] = "VaryingNode" THEN hist.analyzeCalls[n] ELSE hist.analyzeFanout[n]

\* C23 as claimed: within one pass over a graph without cycles, every node,
\* of whatever class, has its setup, its recursion from analyze into its
\* children and its generate function executed at most once, however many
\* parents refer to it.
VisitedOncePerPass ==
    (builds = 1 /\ PlainDag) =>
        \A n \in Nodes :
            /\ hist.setupCalls[n] <= 1
            /\ AnalyzeRecursions(n) <= 1
            /\ hist.generateCalls[n] <= 1

\* C23 as amended: the setup function of a node runs at most once, the base
\* analyze goes into the node's children for the first reference only, and the
\* generate function of a single-output class runs at most once; the base
\* analyze still counts every reference.  Nothing of the kind holds for
\* VaryingNode.analyze and for a generate function that takes the output type:
\* they run, and build what they refer to, for every reference.
VisitedOnceGuarded ==
    \A n \in Nodes :
        /\ hist.setupCalls[n] <= 1
        /\ kind[n] # "VaryingNode" =>
              /\ hist.analyzeFanout[n] <= 1
              /\ builder.data[n].usageCount = hist.analyzeCalls[n]
        /\ kind[n] \in {"BypassNode", "VaryingNode", "PropertyNode"} =>
              hist.generateCalls[n] <= 1

\* In one pass over a graph without cycles a base-class node with two
\* references was set up once, counted twice and analyzed into once, and its
\* generate function ran for either reference.
VisitedOnceWitness ==
    /\ builds = 1 /\ PlainDag /\ stack = <<>>
    /\ \E n \in Nodes :
          /\ kind[n] \in {"Node", "SetupNode"}
          /\ hist.setupCalls[n] = 1
          /\ builder.data[n].usageCount = 2
          /\ hist.analyzeFanout[n] = 1
          /\ hist.generateCalls[n] = 2

\* C24: over a compile made of a setup pass, an analyze pass and a generate
\* pass from the root, no node's setup function is invoked once any node's
\* analyze function has been, and no node's setup or analyze function is
\* invoked once any node's generate function has been; no build forces an
\* earlier stage.
PassesSequential ==
    /\ [][(\E n \in Nodes : hist'.setupCalls[n] > hist.setupCalls[n])
            => \A m \in Nodes : hist.analyzeCalls[m] = 0 /\ hist.generateCalls[m] = 0]_vars
    /\ [][(\E n \in Nodes : hist'.analyzeCalls[n] > hist.analyzeCalls[n])
            => \A m \in Nodes : hist.generateCalls[m] = 0]_vars
    /\ [](\A n \in Nodes :
            /\ hist.setupCalls[n] > 0 => builds >= 1
            /\ hist.analyzeCalls[n] > 0 => builds >= 2
            /\ hist.generateCalls[n] > 0 => builds = 3)
    /\ [](\A i \in 1..Len(stack) : stack[i].pc # "backfill")

\* The three passes are over: a node under the root has gone through its three
\* stage functions.
PassesWitness ==
    /\ builds = 3 /\ stack = <<>> /\ ~err
    /\ \E n \in Nodes \ {Root} :
          /\ hist.setupCalls[n] = 1
          /\ hist.analyzeCalls[n] >= 1
          /\ hist.generateCalls[n] >= 1

\* C25: no step of a build, in any stage, changes a node's class, references,
\* name, id, version or memoized key, nor the record another builder keeps;
\* and a builder that took a node through the setup stage holds its own
\* initialized property record of it, whatever another builder holds.
BuildFrame ==
    /\ [][(stack # <<>> \/ stack' # <<>>) =>
            /\ <<kind, aNode, bNode, name, varying>>' = <<kind, aNode, bNode, name, varying>>
            /\ <<id, nodeId, version, cacheKey, cacheKeyVersion, updateType>>'
                 = <<id, nodeId, version, cacheKey, cacheKeyVersion, updateType>>
            /\ other' = other]_vars
    /\ [](Idle => \A n \in Nodes :
            /\ "setup" \in builder.data[n].buildStages => builder.props[n].initialized
            /\ "setup" \in other.data[n].buildStages => other.props[n].initialized)

\* The root, signalled and with a memoized key, went through two builders:
\* the first took it through the setup stage only, the second through all three.
BuildFrameWitness ==
    /\ Idle
    /\ version[Root] > 0 /\ cacheKey[Root] # NoKey
    /\ other.data[Root].buildStages = {"setup"}
    /\ builder.data[Root].buildStages = Stages
    /\ builder.props[Root].initialized /\ other.props[Root].initialized

\* The operands of a typing question are scalars or vectors, none void.
PlainOperands == /\ expr.f = "getNodeType"
                 /\ expr.a # Void /\ expr.b \notin {Void, NoType}
                 /\ ~expr.a.mat /\ ~expr.b.mat

\* The vector width of the operands.
OperandWidth == Max(expr.a.n, expr.b.n)

\* C26: for every comparison operator (<, >, <=, >=, ==, !=) and every pair of
\* non-void operand types, getNodeType returns 'bool' when the operands are
\* scalar and otherwise the boolean vector whose width is the operands' vector
\* width (no output requested, or an output of that width).
ComparisonType ==
    (/\ PlainOperands
     /\ expr.op \in Relational \cup Equality
     /\ expr.output = NoType \/ GetTypeLength(expr.output) = OperandWidth)
        => expr.type = IF OperandWidth = 1 THEN Bool ELSE BVec(OperandWidth)

\* The operands of an arithmetic typing question, none void.
ArithmeticOperands == /\ expr.f = "getNodeType"
                      /\ expr.op \in Arithmetic
                      /\ expr.a # Void /\ expr.b \notin {Void, NoType}

\* One operand is a matrix and the other a vector.
MatrixWithVector == \/ expr.a.mat /\ ~expr.b.mat /\ expr.b.n > 1
                    \/ expr.b.mat /\ ~expr.a.mat /\ expr.a.n > 1

\* The dimension of the matrix among the operands.
MatrixDimension == IF expr.a.mat THEN expr.a.n ELSE expr.b.n

\* The number of components of a type: the width of a scalar or vector, the
\* number of entries of a matrix.
ComponentCount(t) == IF t.mat THEN t.n * t.n ELSE t.n

\* C27: for the arithmetic operators (+, -, *, /) on non-void operands,
\* getNodeType returns the type of the operand with the larger component count
\* (the first operand on a tie), except that float with a matrix gives the
\* matrix type and a matrix with a vector, in either order, gives the float
\* vector of the matrix's dimension.
ArithmeticType ==
    ArithmeticOperands =>
        IF MatrixWithVector
        THEN expr.type = [c |-> "float", n |-> MatrixDimension, mat |-> FALSE]
        ELSE IF (expr.a = Float /\ expr.b.mat) \/ (expr.b = Float /\ expr.a.mat)
        THEN expr.type.mat /\ expr.type \in {expr.a, expr.b}
        ELSE /\ expr.type \in {expr.a, expr.b}
             /\ ComponentCount(expr.type) >= ComponentCount(expr.a)
             /\ ComponentCount(expr.type) >= ComponentCount(expr.b)
             /\ ComponentCount(expr.a) = ComponentCount(expr.b) => expr.type = expr.a

\* add( vec3, float ) has been typed; so have a tie between two different
\* types, float with a matrix and a matrix with a vector.
ArithmeticWitness ==
    \/ /\ ArithmeticOperands /\ expr.op = "+"
       /\ expr.a = [c |-> "float", n |-> 3, mat |-> FALSE] /\ expr.b = Float
       /\ expr.type = expr.a
    \/ /\ ArithmeticOperands /\ expr.op = "*"
       /\ expr.a.mat /\ ~expr.b.mat /\ expr.b.n = 4 /\ expr.a.n = 3
       /\ expr.type = [c |-> "float", n |-> 3, mat |-> FALSE]

\* A typing question has been answered.
Typed == expr.f = "getNodeType"

\* C28: getNodeType returns the integer type derived from the first operand
\* (the first operand itself when it is an integer type, otherwise the int
\* type of its shape) for every bitwise and shift operator, 'bool' for every
\* logical operator, and 'void' for every operator when an operand is void.
BitwiseLogicalType ==
    /\ (Typed /\ expr.op \in {"~", "&", "|", "^", "<<", ">>"} /\ expr.a # Void /\ expr.b # Void)
           => /\ expr.type.c \in {"int", "uint"}
              /\ expr.type.n = expr.a.n /\ expr.type.mat = expr.a.mat
              /\ expr.a.c \in {"int", "uint"} => expr.type = expr.a
              /\ expr.a.c \notin {"int", "uint"} => expr.type.c = "int"
    /\ (Typed /\ expr.op \in {"!", "&&", "||", "^^"} /\ expr.a # Void /\ expr.b # Void)
           => expr.type = [c |-> "bool", n |-> 1, mat |-> FALSE]
    /\ (Typed /\ (expr.a = Void \/ expr.b = Void)) => expr.type = Void

\* bitAnd( int, int ) has been typed as int; or an operator whose second
\* operand alone is void has been typed as void.
BitwiseLogicalWitness ==
    \/ /\ Typed /\ expr.op = "&"
       /\ expr.a = [c |-> "int", n |-> 1, mat |-> FALSE] /\ expr.b = expr.a
       /\ expr.type = expr.a
    \/ /\ Typed /\ expr.op = "&&"
       /\ expr.a = [c |-> "bool", n |-> 1, mat |-> FALSE] /\ expr.b = Void
       /\ expr.type = Void

\* The operands of an expression from left to right, with repetitions.
RECURSIVE Leaves(_)
Leaves(t) ==
    IF t.k = "operand" THEN <<t.i>>
    ELSE IF t.k = "OperatorNode" THEN Leaves(t.aNode) \o Leaves(t.bNode)
    ELSE IF t.k = "MathNode" THEN Leaves(t.aNode) \o Leaves(t.bNode) \o Leaves(t.cNode)
    ELSE <<>>

\* The number of operator or math nodes of an expression.
RECURSIVE Size(_)
Size(t) ==
    IF t.k = "OperatorNode" THEN 1 + Size(t.aNode) + Size(t.bNode)
    ELSE IF t.k = "MathNode" THEN 1 + Size(t.aNode) + Size(t.bNode) + Size(t.cNode)
    ELSE 0

\* Every node of the expression is a binary node of class k with the operator
\* (or method) op, whose second input is an operand: a left-leaning chain.
RECURSIVE LeftChain(_, _, _)
LeftChain(t, k, op) ==
    \/ t.k = "operand"
    \/ /\ t.k = k
       /\ IF k = "OperatorNode" THEN t.op = op ELSE t.method = op /\ t.cNode = NullNode
       /\ t.bNode.k = "operand"
       /\ LeftChain(t.aNode, k, op)

\* C29: constructing an OperatorNode with n >= 3 operands x1..xn yields the
\* left-associative chain (((x1 op x2) op x3) ... op xn): n-1 binary
\* OperatorNodes of the same operator, each operand once, in the order given.
OperatorChain ==
    (expr.f = "OperatorNode" /\ expr.n >= 3)
        => /\ LeftChain(expr.node, "OperatorNode", expr.op)
           /\ Size(expr.node) = expr.n - 1
           /\ Leaves(expr.node) = [i \in 1..expr.n |-> i]

\* add( x1, x2, x3, x4 ) has been constructed: three nodes, x4 outermost.
OperatorChainWitness ==
    /\ expr.f = "OperatorNode" /\ expr.op = "+" /\ expr.n = 4
    /\ Size(expr.node) = 3
    /\ expr.node.bNode = [k |-> "operand", i |-> 4]
    /\ expr.node.aNode.aNode.aNode = [k |-> "operand", i |-> 1]

\* C30: constructing a MathNode with method min or max and n >= 3 operands
\* x1..xn yields a left-associative chain of n-1 binary MathNodes of the same
\* method, third input null, each operand once and in the order given.
MathChain ==
    (expr.f = "MathNode" /\ expr.method \in {"min", "max"} /\ expr.n >= 3)
        => /\ LeftChain(expr.node, "MathNode", expr.method)
           /\ Size(expr.node) = expr.n - 1
           /\ Leaves(expr.node) = [i \in 1..expr.n |-> i]

\* C31: when a MathNode of a derivative method (dFdx, dFdy, fwidth) is
\* generated while the shader stage is not fragment, the method name is
\* emitted as a commented-out token, the operands are still built and a
\* snippet is returned.
DerivativeDisabled ==
    (expr.f = "generate" /\ expr.method \in {"dFdx", "dFdy", "fwidth"}
     /\ expr.shaderStage # "fragment")
        => /\ expr.emitted = <<"/*", expr.method, "*/">>
           /\ expr.params = <<"a">>
           /\ expr.snippet = <<expr.emitted, "(", <<"a">>, ")">>

\* The fields of the nodes, their children and what the builders store.
NodeState == <<graph, builder, other, created, nodeId, id, version, cacheKey,
               cacheKeyVersion, updateType>>

\* C32: update, updateBefore and updateAfter of a node that does not override
\* them change no state of the node (version, update type, cache key,
\* children) and raise no error.
UpdateIsNoop ==
    /\ [][\A n \in Nodes, method \in UpdateMethods :
             Update(n, method) => /\ UNCHANGED NodeState
                                  /\ ~event'.threw
                                  /\ err' = err]_vars
    /\ [](event.call \in UpdateMethods => event.warnings = 1 /\ ~event.threw)

\* update has been called on the root after it was signalled, asked for its key
\* and built.
UpdateWitness ==
    /\ event.call = "update" /\ event.node = Root
    /\ version[Root] > 0 /\ cacheKey[Root] # NoKey
    /\ builder.props[Root].initialized

\* C33: dispose() dispatches one 'dispose' event, to the listeners of that
\* node only: no child is disposed or notified, and the node's fields and what
\* every builder stores for it are unchanged.
DisposeOnlyNotifies ==
    /\ [][\A n \in Nodes : Dispose(n) => UNCHANGED NodeState]_vars
    /\ [](event.call = "dispose"
             => /\ Len(event.dispatched) = 1
                /\ event.dispatched[1] = [type |-> "dispose", target |-> event.node]
                /\ event.warnings = 0 /\ ~event.threw)

\* A node with a child has been disposed after two builders set it up.
DisposeWitness ==
    /\ event.call = "dispose" /\ event.node = Root /\ aNode[Root] # Null
    /\ builder.props[Root].initialized /\ other.props[Root].initialized

\* The frame's build call has pushed its node onto the chain: it is not
\* delegated, and is past the forcing of the earlier stage.
OnChain(f) == f.pc \notin {"enter", "delegated", "backfill"}

\* The nodes of the build calls in progress that have pushed their node,
\* outermost first.
PushedNodes ==
    LET frames == SelectSeq(stack, OnChain)
    IN [i \in 1..Len(frames) |-> frames[i].node]

\* C34: the builder's chain follows stack discipline across build calls: at
\* any time it holds the nodes of the non-delegated build calls in progress, in
\* call order, so when a build call returns the chain is what it was at entry;
\* and the node is added to the sequential nodes exactly once per such call,
\* when it returns.
ChainDiscipline ==
    /\ [](~err => builder.chain = PushedNodes)
    /\ [](stack = <<>> /\ ~err => builder.chain = <<>>)
    /\ [][~err' =>
            \A n \in Nodes :
                builder'.sequentialNodes[n] =
                    builder.sequentialNodes[n] +
                        (IF /\ stack # <<>> /\ Len(stack') = Len(stack) - 1
                            /\ Top.pc # "delegated" /\ Top.node = n
                         THEN 1 ELSE 0)]_vars

\* Two build calls are in progress on the chain under a delegated one, and a
\* node has been built to the end twice.
ChainWitness ==
    /\ ~err /\ Len(builder.chain) >= 2 /\ Len(stack) > Len(builder.chain)
    /\ \E i \in 1..Len(stack) : stack[i].pc = "delegated"
    /\ \E n \in Nodes : builder.sequentialNodes[n] >= 2

\* The classes that inherit Node.setup.
DefaultSetup(n) == kind[n] \in {"Node", "BypassNode", "PropertyNode"}

\* The node-valued fields of a node in the order its class declares them.
FieldNodes(n) == SelectSeq(<<aNode[n], bNode[n]>>, LAMBDA x : x > 0)

\* The Node-valued entries that the first setup of node n leaves in its
\* property record, in insertion order: node0..nodeN for the default setup,
\* the one node stored by an overriding setup otherwise.
SetupEntries(n) == IF DefaultSetup(n) THEN FieldNodes(n) ELSE <<aNode[n]>>

\* The entries of frame f's node that its setup loop has gone through.
EntriesBuilt(f) == Len(SetupEntries(f.node)) - Len(f.todo)

\* C35: the default setup registers the node's children in field order as
\* node0..nodeN and returns null when no outputNode is stored; the first
\* setup-stage build then builds every Node-valued entry of the property
\* record, in the setup stage, each once and in insertion order.
SetupBuildsEntries ==
    /\ [](\A n \in Nodes :
             (DefaultSetup(n) /\ builder.props[n].initialized)
                 => /\ builder.props[n].children = FieldNodes(n)
                    /\ builder.props[n].outputNode = Null)
    /\ [](~err =>
             \A i \in 1..Len(stack) :
                 stack[i].pc = "setupLoop"
                     => /\ EntriesBuilt(stack[i]) \in 0..Len(SetupEntries(stack[i].node))
                        /\ stack[i].todo = SubSeq(SetupEntries(stack[i].node),
                                                  EntriesBuilt(stack[i]) + 1,
                                                  Len(SetupEntries(stack[i].node)))
                        /\ i < Len(stack)
                               => /\ EntriesBuilt(stack[i]) >= 1
                                  /\ stack[i + 1].node =
                                         SetupEntries(stack[i].node)[EntriesBuilt(stack[i])]
                                  /\ IF stack[i + 1].pc = "enter"
                                     THEN builder.buildStage = "setup"
                                     ELSE stack[i + 1].entry = "setup"
                        /\ i = Len(stack) => hist.setupCalls[stack[i].node] >= 1)
    /\ [][(~err /\ ~err' /\ stack # <<>> /\ Top.pc = "setupLoop")
             => IF Top.todo = <<>>
                THEN stack' = SubSeq(stack, 1, Len(stack) - 1)
                ELSE /\ Len(stack') = Len(stack) + 1
                     /\ stack'[Len(stack')].node = Head(Top.todo)
                     /\ stack'[Len(stack)].todo = Tail(Top.todo)]_vars

\* The first setup of a node with two children has built the first and is
\* building the second; the two are different nodes.
SetupEntriesWitness ==
    /\ ~err /\ Len(stack) >= 2
    /\ \E i \in 1..(Len(stack) - 1) :
          /\ stack[i].pc = "setupLoop" /\ kind[stack[i].node] = "BypassNode"
          /\ aNode[stack[i].node] # bNode[stack[i].node]
          /\ stack[i].todo = <<>>
          /\ stack[i + 1].node = bNode[stack[i].node]

\* A VaryingNode and a PropertyNode that carry one name.
Rivals(n, m) ==
    /\ kind[n] = "VaryingNode" /\ kind[m] = "PropertyNode"
    /\ name[n] # "" /\ name[n] = name[m]

\* Node x has done no stage work in the builder: it is not registered, none
\* of its stage functions ran, it has no slot and no build call of it went
\* past the delegation test.
NeverRan(x) ==
    /\ x \notin builder.nodes
    /\ ~builder.props[x].initialized
    /\ hist.setupCalls[x] = 0 /\ hist.analyzeCalls[x] = 0 /\ hist.generateCalls[x] = 0
    /\ ~builder.varyings[x].allocated /\ ~builder.nodeVars[x]
    /\ \A i \in 1..Len(stack) :
          stack[i].node = x => stack[i].pc \in {"enter", "delegated"}

\* C36: a VaryingNode and a PropertyNode with one name have the same hash, and
\* in one builder the one built first wins: it is the one registered under
\* the hash, every build of the other delegates to it, and the other's own
\* stage functions and slot allocation never run.
FirstBuiltWins ==
    /\ [](\A n, m \in Nodes : Rivals(n, m) => Hash(n) = Hash(m))
    /\ [](\A n, m \in Nodes :
             Rivals(n, m) =>
                 /\ NeverRan(n) \/ NeverRan(m)
                 /\ builder.hashNodes[Hash(n)] \in {Null, n, m}
                 /\ \A x \in {n, m} : builder.hashNodes[Hash(n)] = x => ~NeverRan(x))
    /\ [][\A n, m \in Nodes : \A x, y \in {n, m} :
             (Rivals(n, m) /\ x # y /\ ~err /\ ~err' /\ stack # <<>>
              /\ Top.pc = "enter" /\ Top.node = x)
                 => IF NeverRan(y)
                    THEN ~NeverRan(x)' /\ NeverRan(y)'
                    ELSE /\ NeverRan(x)'
                         /\ Len(stack') = Len(stack) + 1
                         /\ stack'[Len(stack)].pc = "delegated"
                         /\ stack'[Len(stack')].node = y]_vars

\* The PropertyNode was built first and generated; a generate-stage build of
\* the VaryingNode of the same name is delegated to it.
FirstBuiltWitness ==
    \E n, m \in Nodes :
        /\ Rivals(n, m) /\ ~err
        /\ builder.hashNodes[Hash(n)] = m /\ hist.generateCalls[m] > 0
        /\ builder.buildStage = "generate"
        /\ \E i \in 1..Len(stack) : stack[i].node = n /\ stack[i].pc = "delegated"

\* The build stage of the top-level build call in progress.
TopStage == IF stack[1].pc = "enter" THEN builder.buildStage ELSE stack[1].entry

\* C37: for any finite graph, cycles included, a setup-stage build and an
\* analyze-stage build of a root terminate: no such build exhausts the call
\* stack.
SetupAnalyzeTerminate == err => TopStage = "generate"

\* C38: a re-entrant generate-stage build that returns the recursion
\* placeholder leaves the node's memoized snippet unset; the snippet is set
\* only by the step in which the outer generate returns, to the value that
\* generate returned, and is never changed afterwards; every later
\* generate-stage build of the node returns the memoized snippet formatted
\* for its output, without a generate call and with no generate of the node
\* in progress.
PlaceholderNotMemoized ==
    /\ [][(Entering("generate") /\ IsGenerateOnce(Top.node)
             /\ ActiveGenerates(Top.node) > 0)
            => /\ builder.data[Top.node].snippet = RUndef
               /\ builder'.data[Top.node].snippet = RUndef]_vars
    /\ [][\A n \in Nodes :
            builder'.data[n].snippet # builder.data[n].snippet
                => /\ builder.data[n].snippet = RUndef
                   /\ stack # <<>> /\ Top.node = n
                   /\ Top.pc \in GeneratePcs \cup {"enter", "backfill"}
                   /\ ActiveGenerates(n) = (IF Top.pc \in GeneratePcs THEN 1 ELSE 0)
                   /\ stack' = Pop(stack)
                   /\ ret' = Format(builder'.data[n].snippet, "float", Top.output)]_vars
    /\ [](\A n \in Nodes :
            builder.data[n].snippet # RUndef
                => (builder.data[n].generated /\ ActiveGenerates(n) = 0))
    /\ [][(Entering("generate") /\ IsGenerateOnce(Top.node)
             /\ builder.data[Top.node].snippet # RUndef)
            => /\ ret' = Format(builder.data[Top.node].snippet, "float", Top.output)
               /\ builder'.data = builder.data
               /\ hist'.generateCalls = hist.generateCalls]_vars

\* A later generate-stage build enters a node whose generate has returned
\* the placeholder that its own re-entrant build handed to it: the stored
\* snippet is the outer generate's result.
PlaceholderWitness ==
    /\ Entering("generate")
    /\ IsGenerateOnce(Top.node)
    /\ ActiveGenerates(Top.node) = 0
    /\ builder.data[Top.node].snippet # RUndef
    /\ builder.data[Top.node].snippet.s = RecursionSnippet

\* The screen-coordinate node has run its generate function in this builder.
CoordinateGenerated == screen.data["coordinate"].generated

\* C39: whenever the generate function of the screen-coordinate node runs
\* with a flipped Y axis, the screen-size node has been set up in the
\* builder and the outputNode read from its properties is a node (no
\* TypeError); and no build of a screen node exhausts the call stack: every
\* build of the screen-coordinate node, in whichever stage it starts, comes
\* back, although its setup output has the node itself as an operand.
ScreenSizeSetUp ==
    /\ screen.error = "none"
    /\ Len(screen.stack) < MaxDepth
    /\ (screen.flipY /\ CoordinateGenerated)
           => /\ screen.props["size"].initialized
              /\ screen.props["size"].outputNode = SNode("sizeUniform")
    /\ screen.reads = 1 => (screen.flipY /\ screen.read = SNode("sizeUniform"))
    /\ \A i \in 1..Len(screen.stack) :
           screen.stack[i].node \in {"vec2", "div"} => screen.buildStage # "generate"

\* A generate-stage build of the screen-coordinate node in a fresh builder
\* with a flipped Y axis has come back with the flipped coordinate, which
\* uses the snippet of the size's uniform.
ScreenSizeWitness ==
    /\ screen.flipY /\ screen.error = "none"
    /\ screen.stack = <<>> /\ screen.builds = 1
    /\ screen.buildStage = "generate"
    /\ screen.reads = 1
    /\ screen.props["coordinate"].outputNode = SNode("vec2")
    /\ screen.data["coordinate"].usageCount = 2
    /\ screen.ret = SStr(FlippedCoord(FragCoord, <<"sizeUniform">>))

====
